---- MODULE Spec2Model ----
(***************************************************************************)
(* A model of whence (anupcshan/whence): the resumable import job manager  *)
(* (backfill.go, db.go), sample ingestion and the path index (db.go,       *)
(* paths.go, handlers.go), and the geometry filters of paths.go.           *)
(*                                                                         *)
(* Specifications:                                                         *)
(*   Spec          the BackfillManager: StartImport, ResumeImport,         *)
(*                 CancelImport, the runImport worker, process restart     *)
(*   SpecStartup   NewBackfillManager over a large persisted job table     *)
(*   SpecIngest    the requests that store samples and write the path      *)
(*                 index, statement by statement, one request at a time    *)
(*   SpecSimplify  SimplifyPath on bounded point sequences                 *)
(*   SpecPrune     PruneStationaryPoints on bounded point sequences        *)
(*   SpecSpikes    RemoveSpikes on bounded point sequences                 *)
(*   SpecFilters   the three filters with the tolerances and thresholds    *)
(*                 the program passes them                                 *)
(*   SpecTimeline  the cluster merge of handleAPITimeline                  *)
(*   SpecResume    the BackfillManager over a table with an interrupted    *)
(*                 job                                                     *)
(*   SpecStream    one import with subscribers to its progress stream      *)
(*   SpecMove      one import of one page with three subscribers           *)
(*   SpecLive      one started import under fair scheduling of the worker  *)
(*                 and of the calls in progress                            *)
(*   SpecIndex     the same requests served at the same time, with         *)
(*                 database errors                                         *)
(*   SpecPaths     the path query with its simplification pipeline,        *)
(*                 statement by statement                                  *)
(*   SpecEntries   the stop and travel entries of handleAPITimeline        *)
(***************************************************************************)
EXTENDS Integers, Sequences, FiniteSets, TLC

VARIABLES
    db,         \* table import_jobs: sequence of rows, index = job id in creation (started_at) order
    jobs,       \* bm.jobs: job id -> cancellation handle (the id of the context it cancels)
    ctxDone,    \* contexts whose cancel() has been called
    workers,    \* live runImport goroutines: id of the context each was given -> its frame
    calls,      \* StartImport / ResumeImport / CancelImport invocations in progress
    ret,        \* what the last invocation to return returned
    events,     \* environment events so far (API calls, restarts, injected faults)
    up,         \* TRUE once NewBackfillManager has returned
    pages,      \* the number of pages the external asset source holds
    streams,    \* bm.streams: job id -> the slice of the channels subscribed to the job
    chans,      \* the channels Subscribe has made: index = channel, [jobID, buf, closed, ...]
    locations,  \* table locations: set of sample rows
    paths,      \* tables paths + path_points: set of Path records with their points
    lastIngest, \* what the last ingestion request to return reported
    ops,        \* ingestion and rebuild requests in progress: their frames
    gIn,        \* geometry: the input point sequence
    gParam,     \* geometry: tolerance / minDistMeters / thresholdMeters
    gOut,       \* geometry: the value returned
    gPc         \* geometry: "input" before the call, "done" after it

streamVars == <<pages, streams, chans>>
bmVars == <<db, jobs, ctxDone, workers, calls, ret, events, up, pages, streams, chans>>
storeVars == <<locations, paths, lastIngest, ops>>
geoVars == <<gIn, gParam, gOut, gPc>>
vars == <<db, jobs, ctxDone, workers, calls, ret, events, up, pages, streams, chans, locations, paths, lastIngest, ops, gIn, gParam, gOut, gPc>>

(***************************************************************************)
(* Bounds of the model.                                                    *)
(***************************************************************************)
MaxJobs == 1
MaxPages == 2
MaxEvents == 3
MaxStored == 52

\* LIMIT of DB.ListImportJobs
ListLimit == 50

NoJob == [status |-> "none"]
NoErr == "nil"

Min(a, b) == IF a < b THEN a ELSE b
Max(a, b) == IF a > b THEN a ELSE b
Abs(x) == IF x < 0 THEN -x ELSE x

(***************************************************************************)
(* ImportConfig and its JSON form (config_json).  Cameras carries          *)
(* omitempty: an empty list is left out of the JSON and read back as nil,  *)
(* which has length 0 like the empty list; both are <<>> here.             *)
(***************************************************************************)
\* The imports requested here all filter on one camera.
Configs == { [Cameras |-> <<"camA">>, UserID |-> "u1"] }

\* An import without a camera filter.
Unfiltered == [Cameras |-> <<>>, UserID |-> "u1"]

jsonMarshal(config) ==
    IF Len(config.Cameras) = 0
    THEN [user_id |-> config.UserID]
    ELSE [cameras |-> config.Cameras, user_id |-> config.UserID]

jsonUnmarshal(js) ==
    [Cameras |-> IF "cameras" \in DOMAIN js THEN js.cameras ELSE <<>>,
     UserID |-> js.user_id]

(***************************************************************************)
(* Table import_jobs.                                                      *)
(***************************************************************************)
NewJobRow(configJSON) ==
    [status |-> "running", processed |-> 0, imported |-> 0, skipped |-> 0,
     errors |-> 0, lastPage |-> 0, lastError |-> NoErr, completedAt |-> FALSE,
     configJSON |-> configJSON]

GetImportJob(table, id) ==
    IF id \in 1..Len(table) THEN table[id] ELSE NoJob

\* UPDATE import_jobs SET status, completed_at, ..., last_page, last_error WHERE id = ?
\* It writes every column but config_json, and no row when the id is unknown.
UpdateImportJob(table, id, job) ==
    IF id \in 1..Len(table)
    THEN [table EXCEPT ![id] = [job EXCEPT !.configJSON = table[id].configJSON]]
    ELSE table

\* The ids of the rows ListImportJobs returns: ORDER BY started_at DESC LIMIT 50.
ListImportJobs(table) ==
    { id \in 1..Len(table) : id > Len(table) - ListLimit }

\* The rows markInterruptedJobs finds running in the list (line 141).
ListedRunning(table) ==
    { id \in ListImportJobs(table) : table[id].status = "running" }

\* markInterruptedJobs (lines 133-150): every listed job that is running
\* becomes interrupted.  When ListImportJobs fails (listErr) it returns with
\* no row written; a row whose UPDATE fails (those of `failed') stays as it
\* was.  Both errors are logged only.
markInterruptedJobs(table, listErr, failed) ==
    [id \in 1..Len(table) |->
        IF ~listErr /\ id \in ListedRunning(table) \ failed
        THEN [table[id] EXCEPT !.status = "interrupted", !.lastError = "server restarted"]
        ELSE table[id]]

(***************************************************************************)
(* Table locations.  A row is [Timestamp, UserID, DeviceID, Lat, Lon];     *)
(* timestamps are unix seconds and Lat/Lon whole degrees.  The primary key *)
(* is (timestamp, device_id).                                              *)
(***************************************************************************)
Devices == <<"camA", "camB">>

\* The device id handleGPSLogger gives its samples (handlers.go line 117).
GPSLoggerDevice == "gpslogger"

\* The place of a device id in the byte order of the ids.
DeviceRank(d) ==
    IF d = GPSLoggerDevice THEN Len(Devices) + 1
    ELSE CHOOSE i \in 1..Len(Devices) : Devices[i] = d

SameKey(a, b) == a.Timestamp = b.Timestamp /\ a.DeviceID = b.DeviceID
HasKey(table, loc) == \E r \in table : SameKey(r, loc)

\* INSERT OR REPLACE in place of INSERT OR IGNORE.
InsertOrIgnore_Replace(table, loc) == { r \in table : ~SameKey(r, loc) } \cup {loc}

\* INSERT OR IGNORE INTO locations ...: the table after it, and RowsAffected.
InsertOrIgnore(table, loc) == IF HasKey(table, loc) THEN table ELSE table \cup {loc}
RowsAffected(table, loc) == IF HasKey(table, loc) THEN 0 ELSE 1

\* DB.InsertLocation
InsertLocation(table, loc) == InsertOrIgnore(table, loc)

\* DB.InsertLocationBatch without a database error: one transaction over the
\* batch, counting the rows affected.
RECURSIVE InsertLocationBatch(_, _)
InsertLocationBatch(table, locs) ==
    IF Len(locs) = 0
    THEN [table |-> table, inserted |-> 0, skipped |-> 0]
    ELSE LET affected == RowsAffected(table, Head(locs))
             rest == InsertLocationBatch(InsertOrIgnore(table, Head(locs)), Tail(locs))
         IN [table |-> rest.table,
             inserted |-> rest.inserted + (IF affected > 0 THEN 1 ELSE 0),
             skipped |-> rest.skipped + (IF affected > 0 THEN 0 ELSE 1)]

\* DB.InsertLocationWithSource: fail is a database error, which rolls the
\* transaction back.
InsertLocationWithSource(table, loc, fail) ==
    IF fail
    THEN [table |-> table, inserted |-> FALSE, err |-> TRUE]
    ELSE [table |-> InsertOrIgnore(table, loc),
          inserted |-> RowsAffected(table, loc) > 0, err |-> FALSE]

(***************************************************************************)
(* Local dates.  A date "2006-01-02" is modelled by its day number since   *)
(* the epoch.                                                              *)
(***************************************************************************)
SecondsPerHour == 3600
SecondsPerDay == 86400

\* int(math.Round(lon / 15.0)) for a whole number of degrees: half away from zero.
RoundDiv15(lon) ==
    IF lon >= 0 THEN (2 * lon + 15) \div 30 ELSE -((2 * (-lon) + 15) \div 30)

\* TimezoneFromCoords, as the zone's offset in seconds.
TimezoneFromCoords(lat, lon) ==
    LET offsetHours == RoundDiv15(lon)
        clamped == IF offsetHours < -12 THEN -12
                   ELSE IF offsetHours > 14 THEN 14 ELSE offsetHours
    IN clamped * SecondsPerHour

LocalDateFromTimestamp(ts, lat, lon) ==
    (ts + TimezoneFromCoords(lat, lon)) \div SecondsPerDay

(***************************************************************************)
(* Paths.  A Path is [ID, UserID, Date, StartTS, EndTS, MinLat, MaxLat,    *)
(* MinLon, MaxLon, PointCount, Points]; a PathPoint is                     *)
(* [Lat, Lon, Timestamp].  ID is 0 in a Path that has been computed and    *)
(* the row id in a stored one; the points of a stored Path are the rows of *)
(* path_points with its id.                                                *)
(***************************************************************************)
PathKey(loc) == <<loc.UserID, LocalDateFromTimestamp(loc.Timestamp, loc.Lat, loc.Lon)>>
PointOf(loc) == [Lat |-> loc.Lat, Lon |-> loc.Lon, Timestamp |-> loc.Timestamp]

\* One pass of sortPathPoints' outer loop: key moves left past every point
\* with a greater timestamp.
RECURSIVE InsertByTimestamp(_, _)
InsertByTimestamp(sorted, key) ==
    IF Len(sorted) > 0 /\ sorted[Len(sorted)].Timestamp > key.Timestamp
    THEN Append(InsertByTimestamp(SubSeq(sorted, 1, Len(sorted) - 1), key), sorted[Len(sorted)])
    ELSE Append(sorted, key)

RECURSIVE sortPathPoints(_)
sortPathPoints(points) ==
    IF Len(points) <= 1 THEN points
    ELSE InsertByTimestamp(sortPathPoints(SubSeq(points, 1, Len(points) - 1)), points[Len(points)])

\* The latitude bounds stay those of the first location of the path.
AccumulatePath_FirstLat(m, loc) ==
    LET key == PathKey(loc)
        path == IF key \in DOMAIN m THEN m[key]
                ELSE [ID |-> 0, UserID |-> loc.UserID, Date |-> key[2],
                      StartTS |-> loc.Timestamp, EndTS |-> loc.Timestamp,
                      MinLat |-> loc.Lat, MaxLat |-> loc.Lat,
                      MinLon |-> loc.Lon, MaxLon |-> loc.Lon,
                      PointCount |-> 0, Points |-> <<>>]
        upd == [path EXCEPT !.StartTS = Min(@, loc.Timestamp),
                            !.EndTS = Max(@, loc.Timestamp),
                            !.MinLon = Min(@, loc.Lon), !.MaxLon = Max(@, loc.Lon),
                            !.Points = Append(@, PointOf(loc)),
                            !.PointCount = @ + 1]
    IN [k \in DOMAIN m \cup {key} |-> IF k = key THEN upd ELSE m[k]]

\* The body of ComputePathsForLocations' loop for one location: m maps a key
\* to the Path accumulated so far.
AccumulatePath(m, loc) ==
    LET key == PathKey(loc)
        path == IF key \in DOMAIN m THEN m[key]
                ELSE [ID |-> 0, UserID |-> loc.UserID, Date |-> key[2],
                      StartTS |-> loc.Timestamp, EndTS |-> loc.Timestamp,
                      MinLat |-> loc.Lat, MaxLat |-> loc.Lat,
                      MinLon |-> loc.Lon, MaxLon |-> loc.Lon,
                      PointCount |-> 0, Points |-> <<>>]
        upd == [path EXCEPT !.StartTS = Min(@, loc.Timestamp),
                            !.EndTS = Max(@, loc.Timestamp),
                            !.MinLat = Min(@, loc.Lat), !.MaxLat = Max(@, loc.Lat),
                            !.MinLon = Min(@, loc.Lon), !.MaxLon = Max(@, loc.Lon),
                            !.Points = Append(@, PointOf(loc)),
                            !.PointCount = @ + 1]
    IN [k \in DOMAIN m \cup {key} |-> IF k = key THEN upd ELSE m[k]]

RECURSIVE AccumulatePaths(_, _)
AccumulatePaths(m, locs) ==
    IF Len(locs) = 0 THEN m ELSE AccumulatePaths(AccumulatePath(m, Head(locs)), Tail(locs))

\* ComputePathsForLocations: key -> Path, the points of each sorted.
ComputePathsForLocations(locs) ==
    LET m == AccumulatePaths(<<>>, locs)
    IN [k \in DOMAIN m |-> [m[k] EXCEPT !.Points = sortPathPoints(@)]]

\* The rows of a SELECT ... ORDER BY timestamp as a sequence; rows of equal
\* timestamp come in primary-key order.
RowBefore(a, b) ==
    \/ a.Timestamp < b.Timestamp
    \/ a.Timestamp = b.Timestamp /\ DeviceRank(a.DeviceID) < DeviceRank(b.DeviceID)

RECURSIVE OrderByTimestamp(_)
OrderByTimestamp(rows) ==
    IF rows = {} THEN <<>>
    ELSE LET first == CHOOSE r \in rows : \A o \in rows \ {r} : RowBefore(r, o)
         IN <<first>> \o OrderByTimestamp(rows \ {first})

\* DB.QueryLocationsByUserDate: the rows of the user in a window of -36 h to
\* +48 h around the date's midnight, kept when their local date is the date.
QueryLocationsByUserDate_UTCDay(table, userID, date) ==
    LET t == date * SecondsPerDay
        rows == { r \in table : r.UserID = userID /\ r.Timestamp >= t
                                 /\ r.Timestamp < t + SecondsPerDay }
    IN OrderByTimestamp(rows)

QueryLocationsByUserDate(table, userID, date) ==
    LET t == date * SecondsPerDay
        startTS == t - 36 * SecondsPerHour
        endTS == t + 48 * SecondsPerHour
        rows == { r \in table : r.UserID = userID /\ r.Timestamp >= startTS
                                 /\ r.Timestamp <= endTS }
    IN SelectSeq(OrderByTimestamp(rows),
                 LAMBDA r : LocalDateFromTimestamp(r.Timestamp, r.Lat, r.Lon) = date)

\* The row id an INSERT INTO paths gets: id is INTEGER PRIMARY KEY, the
\* rowid, one more than the greatest in the table.
NextPathID(index) ==
    IF index = {} THEN 1
    ELSE (CHOOSE n \in { p.ID : p \in index } : \A p \in index : p.ID <= n) + 1

\* DB.CreateOrUpdatePath, one transaction: a new row is inserted for the
\* user and date, or the row they have is updated under its id and its
\* points are replaced.
CreateOrUpdatePath(index, path) ==
    LET existing == { p \in index : p.UserID = path.UserID /\ p.Date = path.Date }
        id == IF existing = {} THEN NextPathID(index)
              ELSE (CHOOSE p \in existing : TRUE).ID
    IN (index \ existing) \cup {[path EXCEPT !.ID = id]}

\* The paths of an index as they were computed, without their row ids.
PathsOf(index) == { [p EXCEPT !.ID = 0] : p \in index }

\* The index after the pass of UpdatePathsForLocations' loop for one key
\* (lines 655-676): the path of the (user, date) is recomputed from all the
\* stored locations of that user and date and stored.
UpdatePathForKey(table, index, key) ==
    LET allLocs == QueryLocationsByUserDate(table, key[1], key[2])
        computed == ComputePathsForLocations(allLocs)
    IN IF key \in DOMAIN computed
       THEN CreateOrUpdatePath(index, computed[key])
       ELSE index

\* DB.UpdatePathsForLocations without a database error: every (user, date)
\* a new location falls in is recomputed.  The keys are those of a map, and
\* the loop (line 654) takes them in any order: these are the indexes it can
\* leave, one for every order.
RECURSIVE UpdatePathsForKeys(_, _, _)
UpdatePathsForKeys(table, index, keys) ==
    IF keys = {} THEN {index}
    ELSE UNION { UpdatePathsForKeys(table, UpdatePathForKey(table, index, key), keys \ {key}) :
                 key \in keys }

UpdatePathsForLocations(table, index, locs) ==
    UpdatePathsForKeys(table, index, { PathKey(locs[i]) : i \in 1..Len(locs) })

\* DB.RebuildAllPaths lines 608-627: the paths it computes from all the
\* locations, which it then stores.
RebuildAllPaths(table) ==
    LET computed == ComputePathsForLocations(OrderByTimestamp(table))
    IN { computed[k] : k \in DOMAIN computed }

\* DB.RebuildAllPaths lines 630-634 without a database error: the indexes
\* the loop over the map of computed paths can leave, one for every order
\* the map can yield them in.
RECURSIVE StoreAll(_, _)
StoreAll(index, pending) ==
    IF pending = {} THEN {index}
    ELSE UNION { StoreAll(CreateOrUpdatePath(index, path), pending \ {path}) :
                 path \in pending }

(***************************************************************************)
(* The external asset source.  An asset is [ID, gps, device, ts, lat,      *)
(* lon]: gps is HasGPS(), device is DeviceIDFromExif(), ts is              *)
(* GetTimestamp().Unix().  The source holds `pages' pages; every page has  *)
(* a camA photo of its own, a photo without GPS, and the same camB photo.  *)
(***************************************************************************)
AssetsOnPage(page) ==
    IF page \in 1..pages
    THEN << [ID |-> 10 * page + 1, gps |-> TRUE, device |-> "camA", ts |-> page, lat |-> 0, lon |-> 0],
            [ID |-> 10 * page + 2, gps |-> FALSE, device |-> "camA", ts |-> page, lat |-> 0, lon |-> 0],
            [ID |-> 3, gps |-> TRUE, device |-> "camB", ts |-> 1, lat |-> 0, lon |-> 0] >>
    ELSE <<>>

HasMore(page) == page < pages

CameraAllowed(config, device) ==
    Len(config.Cameras) = 0 \/ \E i \in 1..Len(config.Cameras) : config.Cameras[i] = device

\* The assets of a page whose location the worker inserts.
Insertable(config, assets) ==
    { i \in 1..Len(assets) : assets[i].gps /\ CameraAllowed(config, assets[i].device) }

\* The location runImport builds from an asset (lines 435-441).
LocationOf(config, asset) ==
    [Timestamp |-> asset.ts, UserID |-> config.UserID,
     DeviceID |-> asset.device, Lat |-> asset.lat, Lon |-> asset.lon]

\* The asset is counted as processed and nothing else is done with it.
ProcessAsset_CountOnly(job, table, config, asset, fail) ==
    [job |-> [job EXCEPT !.processed = @ + 1], table |-> table]

\* One pass of runImport's loop over the assets of a page (lines 420-463):
\* the worker's job record and the locations table after it.  fail is a
\* database error met by the insert.
ProcessAsset(job, table, config, asset, fail) ==
    LET counted == [job EXCEPT !.processed = @ + 1]
    IN IF ~asset.gps \/ ~CameraAllowed(config, asset.device)
       THEN [job |-> counted, table |-> table]
       ELSE LET res == InsertLocationWithSource(table, LocationOf(config, asset), fail)
            IN [job |-> IF res.err THEN [counted EXCEPT !.errors = @ + 1]
                        ELSE IF res.inserted THEN [counted EXCEPT !.imported = @ + 1]
                        ELSE [counted EXCEPT !.skipped = @ + 1],
                table |-> res.table]

(***************************************************************************)
(* bm.jobs, the registry of cancellation handles, and the goroutines.      *)
(***************************************************************************)
Register(reg, jobID, ctx) ==
    [k \in DOMAIN reg \cup {jobID} |-> IF k = jobID THEN ctx ELSE reg[k]]

\* A delete that leaves the entry in the map.
Unregister_Keep(reg, jobID) == reg

Unregister(reg, jobID) == [k \in DOMAIN reg \ {jobID} |-> reg[k]]

RemoveAt(seq, i) == SubSeq(seq, 1, i - 1) \o SubSeq(seq, i + 1, Len(seq))

(***************************************************************************)
(* bm.streams and the subscriber channels (lines 77-130).  A channel is    *)
(* [jobID, owner, buf, closes, dropped, unsub]: buf is its buffer, closes   *)
(* the number of close() calls it has had, dropped the number of snapshots *)
(* a broadcast has dropped for it, unsub the position its unsubscribe      *)
(* function stores next while it moves the list (0 when it is not doing    *)
(* so).  bm.streams[jobID] is a slice: subs are                            *)
(* its elements, cap is the capacity of its array and array names the      *)
(* array, which is that of every copy of the slice made since the array    *)
(* was allocated.                                                          *)
(***************************************************************************)
\* make(chan ImportProgress, 10)
StreamCapacity == 10

\* The consumers: one that has stopped reading its channel, one that reads.
Consumers == <<"stalled", "reader">>

NoProgress == [Status |-> "none"]

\* broadcastProgress (lines 366-374): the snapshot of the worker's job record.
ProgressOf(jobID, job) ==
    [JobID |-> jobID, Status |-> job.status, Imported |-> job.imported,
     Skipped |-> job.skipped, Errors |-> job.errors, Error |-> ""]

\* The snapshot broadcast when a fetch has failed (lines 411-415).
FailureOf(jobID, job) ==
    [JobID |-> jobID, Status |-> job.status, Imported |-> 0,
     Skipped |-> 0, Errors |-> 0, Error |-> job.lastError]

\* A nil slice.
NoSlice == [subs |-> <<>>, cap |-> 0, array |-> 0]

\* bm.streams[jobID]
SliceOf(jobID) == IF jobID \in DOMAIN streams THEN streams[jobID] ELSE NoSlice

SubscribersOf(jobID) == SliceOf(jobID).subs

\* append(slice, c): in place when the array has room, else into a new array
\* of twice the capacity, which is named after the channel that caused it.
AppendSlice(slice, c) ==
    IF Len(slice.subs) < slice.cap
    THEN [slice EXCEPT !.subs = Append(@, c)]
    ELSE [subs |-> Append(slice.subs, c),
          cap |-> IF slice.cap = 0 THEN 1 ELSE 2 * slice.cap,
          array |-> c]

\* The broadcasts that have read the slice of the job and are going through
\* it, and whose copy has the array of the job's slice: they read the
\* elements without the lock, the one at position pos next.
Racing(jobID) ==
    { w \in DOMAIN workers : /\ workers[w].pc = "send"
                             /\ workers[w].jobID = jobID
                             /\ workers[w].array = SliceOf(jobID).array }

\* The copy of such a broadcast once the positions in `taken' of the array
\* have been overwritten with what `after' holds there before the broadcast
\* read them.
Overwritten(view, after, taken) ==
    [k \in 1..Len(view) |-> IF k \in taken THEN after[k] ELSE view[k]]

\* The frames of the workers after a write to the positions `written' of the
\* job's array: a racing broadcast reads the new elements at the positions
\* after the one it is at, and has read the element it is about to send to
\* either before the write or after it.
AfterWrite(jobID, written, after) ==
    { [w \in DOMAIN workers |->
          IF w \in Racing(jobID)
          THEN [workers[w] EXCEPT !.subs =
                   Overwritten(@, after,
                               { k \in written : k > workers[w].pos } \cup late[w])]
          ELSE workers[w]] :
      late \in { f \in [Racing(jobID) -> SUBSET written] :
                   \A w \in Racing(jobID) : f[w] \subseteq {workers[w].pos} } }

NewChan(jobID, owner) ==
    [jobID |-> jobID, owner |-> owner, buf |-> <<>>, closes |-> 0, dropped |-> 0, unsub |-> 0]

\* bm.mu is held by an unsubscribe function that is moving the elements of
\* a subscriber list.
Locked == \E c \in DOMAIN chans : chans[c].unsub > 0

\* A send that pushes the oldest snapshot out of a full buffer.
TrySend_Overwrite(ch, progress) ==
    IF Len(ch.buf) < StreamCapacity
    THEN [ch EXCEPT !.buf = Append(@, progress)]
    ELSE [ch EXCEPT !.buf = Append(Tail(@), progress)]

\* select { case ch <- progress: default: } on an open channel (lines 113-117).
TrySend(ch, progress) ==
    IF Len(ch.buf) < StreamCapacity
    THEN [ch EXCEPT !.buf = Append(@, progress)]
    ELSE [ch EXCEPT !.dropped = @ + 1]

\* The worker has persisted its record and calls broadcast with the
\* snapshot; it goes on at `next' when broadcast returns.
Broadcasting(frame, progress, next) ==
    [frame EXCEPT !.pc = "broadcast", !.progress = progress, !.after = next]

\* A frame when its broadcast returns.
Broadcasted(frame) ==
    [frame EXCEPT !.pc = frame.after, !.subs = <<>>, !.array = 0, !.pos = 0,
                  !.progress = NoProgress, !.after = "none"]

\* The contexts of the goroutines, and of the calls that have made one and
\* not yet started its goroutine.
Contexts == DOMAIN workers \cup ({ calls[c].ctx : c \in DOMAIN calls } \ {0})

\* context.WithCancel: a context no goroutine and no call holds.
FreshCtx ==
    CHOOSE n \in 1..(Cardinality(Contexts) + 1) :
        n \notin Contexts /\ \A m \in 1..(n - 1) : m \in Contexts

\* A runImport goroutine as `go bm.runImport(ctx, jobID, config, startPage)`
\* leaves it.  fetched lists the pages it has asked the source for.
\* resumedFrom is the last_page of the row ResumeImport read (0 for StartImport).
NewWorker(jobID, config, startPage, resumed, resumedFrom) ==
    [jobID |-> jobID, config |-> config, startPage |-> startPage, resumed |-> resumed,
     resumedFrom |-> resumedFrom,
     pc |-> "start", page |-> startPage, job |-> NoJob, hasMore |-> FALSE,
     fetched |-> <<>>, assets |-> <<>>, i |-> 0,
     subs |-> <<>>, array |-> 0, pos |-> 0, progress |-> NoProgress,
     after |-> "none", pending |-> {}]

\* The goroutines after `go bm.runImport(ctx, ...)'.
Launch(ctx, jobID, config, startPage, resumed, resumedFrom) ==
    [w \in DOMAIN workers \cup {ctx} |->
        IF w = ctx THEN NewWorker(jobID, config, startPage, resumed, resumedFrom)
        ELSE workers[w]]

\* A call in progress.  ctx is the context it has made for a goroutine it
\* has not started yet, 0 when it holds none.
NewCall(op, jobID, pc, job, seen, config) ==
    [op |-> op, jobID |-> jobID, pc |-> pc, job |-> job, seen |-> seen, config |-> config,
     ctx |-> 0]

Returned(op, jobID, err) == [op |-> op, jobID |-> jobID, err |-> err]

\* The error a failed database statement returns to the caller.
DBError == "database error"

\* n more of the at most MaxEvents requests and faults.
Spend(n) == events + n <= MaxEvents /\ events' = events + n

\* A database error is met: one of at most MaxEvents requests and faults.
Fault(err) == Spend(IF err THEN 1 ELSE 0)

NoConfig == [Cameras |-> <<>>, UserID |-> ""]

\* ResumeImport's test of the status it read (line 297).
\* Variants of the two definitions below that break the resume rules.
Resumable_NotCompleted(status) == status # "completed"

ResumePage_Same(job) == job.lastPage

Resumable(status) == status = "interrupted" \/ status = "failed"

\* The page ResumeImport starts the worker at (line 318).
ResumePage(job) == job.lastPage + 1

(***************************************************************************)
(* StartImport (lines 254-286).                                            *)
(***************************************************************************)
\* Lines 255-276: the job row is created as running, or CreateImportJob
\* fails and StartImport returns its error.
StartImportCreate(config, err) ==
    /\ up /\ Len(db) < MaxJobs
    /\ Spend(IF err THEN 2 ELSE 1)
    /\ IF err
       THEN /\ ret' = Returned("StartImport", 0, DBError)
            /\ UNCHANGED <<db, calls>>
       ELSE /\ db' = Append(db, NewJobRow(jsonMarshal(config)))
            /\ calls' = Append(calls, NewCall("StartImport", Len(db) + 1, "register", NoJob,
                                              "none", config))
            /\ ret' = ret
    /\ UNCHANGED <<jobs, ctxDone, workers, up, storeVars, geoVars, streamVars>>

\* Lines 278-281: a context is made and, under the lock, its cancel function
\* is registered for the job.
StartImportRegister(c) ==
    /\ calls[c].op = "StartImport" /\ calls[c].pc = "register" /\ ~Locked
    /\ jobs' = Register(jobs, calls[c].jobID, FreshCtx)
    /\ calls' = [calls EXCEPT ![c].pc = "launch", ![c].ctx = FreshCtx]
    /\ UNCHANGED <<db, ctxDone, workers, ret, events, up, storeVars, geoVars, streamVars>>

\* Line 283: the worker is launched at page 1, after the lock is released.
StartImportLaunch(c) ==
    /\ calls[c].op = "StartImport" /\ calls[c].pc = "launch"
    /\ workers' = Launch(calls[c].ctx, calls[c].jobID, calls[c].config, 1, FALSE, 0)
    /\ calls' = [calls EXCEPT ![c].pc = "return", ![c].ctx = 0]
    /\ UNCHANGED <<db, jobs, ctxDone, ret, events, up, storeVars, geoVars, streamVars>>

\* Line 285: StartImport returns the job id.
StartImportReturn(c) ==
    /\ calls[c].op = "StartImport" /\ calls[c].pc = "return"
    /\ calls' = RemoveAt(calls, c)
    /\ ret' = Returned("StartImport", calls[c].jobID, NoErr)
    /\ UNCHANGED <<db, jobs, ctxDone, workers, events, up, storeVars, geoVars, streamVars>>

(***************************************************************************)
(* ResumeImport (lines 289-321).                                           *)
(***************************************************************************)
\* Lines 290-307: the row is read and tested; a call that cannot read the
\* row, or is rejected, returns here.
ResumeImportGet(jobID, err) ==
    /\ up
    /\ Spend(IF err THEN 2 ELSE 1)
    /\ LET job == GetImportJob(db, jobID)
       IN IF err
          THEN /\ ret' = Returned("ResumeImport", jobID, DBError)
               /\ calls' = calls
          ELSE IF job = NoJob
          THEN /\ ret' = Returned("ResumeImport", jobID, "ErrJobNotFound")
               /\ calls' = calls
          ELSE IF ~Resumable(job.status)
          THEN /\ ret' = Returned("ResumeImport", jobID, "ErrJobNotResumable")
               /\ calls' = calls
          ELSE /\ calls' = Append(calls, NewCall("ResumeImport", jobID, "update",
                                [job EXCEPT !.status = "running", !.lastError = NoErr],
                                job.status, jsonUnmarshal(job.configJSON)))
               /\ ret' = ret
    /\ UNCHANGED <<db, jobs, ctxDone, workers, up, storeVars, geoVars, streamVars>>

\* Lines 308-310: the row is written back as running, or the write fails
\* and ResumeImport returns its error without a worker.
ResumeImportUpdate(c, err) ==
    /\ calls[c].op = "ResumeImport" /\ calls[c].pc = "update"
    /\ Fault(err)
    /\ IF err
       THEN /\ db' = db
            /\ calls' = RemoveAt(calls, c)
            /\ ret' = Returned("ResumeImport", calls[c].jobID, DBError)
       ELSE /\ db' = UpdateImportJob(db, calls[c].jobID, calls[c].job)
            /\ calls' = [calls EXCEPT ![c].pc = "register"]
            /\ ret' = ret
    /\ UNCHANGED <<jobs, ctxDone, workers, up, storeVars, geoVars, streamVars>>

\* Lines 312-315: a context is made and, under the lock, its cancel function
\* is registered for the job, in the place of any that is.
ResumeImportRegister(c) ==
    /\ calls[c].op = "ResumeImport" /\ calls[c].pc = "register" /\ ~Locked
    /\ jobs' = Register(jobs, calls[c].jobID, FreshCtx)
    /\ calls' = [calls EXCEPT ![c].pc = "launch", ![c].ctx = FreshCtx]
    /\ UNCHANGED <<db, ctxDone, workers, ret, events, up, storeVars, geoVars, streamVars>>

\* Line 318: the worker is launched at last_page + 1 of the row read, after
\* the lock is released.
ResumeImportLaunch(c) ==
    /\ calls[c].op = "ResumeImport" /\ calls[c].pc = "launch"
    /\ workers' = Launch(calls[c].ctx, calls[c].jobID, calls[c].config,
                        ResumePage(calls[c].job), TRUE, calls[c].job.lastPage)
    /\ calls' = [calls EXCEPT ![c].pc = "return", ![c].ctx = 0]
    /\ UNCHANGED <<db, jobs, ctxDone, ret, events, up, storeVars, geoVars, streamVars>>

\* Line 320: ResumeImport returns nil.
ResumeImportReturn(c) ==
    /\ calls[c].op = "ResumeImport" /\ calls[c].pc = "return"
    /\ calls' = RemoveAt(calls, c)
    /\ ret' = Returned("ResumeImport", calls[c].jobID, NoErr)
    /\ UNCHANGED <<db, jobs, ctxDone, workers, events, up, storeVars, geoVars, streamVars>>

(***************************************************************************)
(* CancelImport (lines 324-348).                                           *)
(***************************************************************************)
\* Lines 325-335: under the mutex the handle is looked up, called and removed.
CancelImportSignal(jobID) ==
    /\ up /\ ~Locked /\ events < MaxEvents
    /\ IF jobID \in DOMAIN jobs
       THEN /\ ctxDone' = ctxDone \cup {jobs[jobID]}
            /\ jobs' = Unregister(jobs, jobID)
            /\ calls' = Append(calls, NewCall("CancelImport", jobID, "get", NoJob, "none", NoConfig))
            /\ ret' = ret
       ELSE /\ ret' = Returned("CancelImport", jobID, "ErrJobNotFound")
            /\ UNCHANGED <<jobs, ctxDone, calls>>
    /\ events' = events + 1
    /\ UNCHANGED <<db, workers, up, storeVars, geoVars, streamVars>>

\* Lines 337-344: the row is read; when it cannot be, CancelImport returns
\* the error, the context cancelled and the row as it was.
CancelImportGet(c, err) ==
    /\ calls[c].op = "CancelImport" /\ calls[c].pc = "get"
    /\ Fault(err)
    /\ LET job == GetImportJob(db, calls[c].jobID)
       IN IF err
          THEN /\ calls' = RemoveAt(calls, c)
               /\ ret' = Returned("CancelImport", calls[c].jobID, DBError)
          ELSE IF job = NoJob
          THEN /\ calls' = RemoveAt(calls, c)
               /\ ret' = Returned("CancelImport", calls[c].jobID, NoErr)
          ELSE /\ calls' = [calls EXCEPT ![c].pc = "update", ![c].seen = job.status,
                               ![c].job = [job EXCEPT !.status = "cancelled", !.completedAt = TRUE]]
               /\ ret' = ret
    /\ UNCHANGED <<db, jobs, ctxDone, workers, up, storeVars, geoVars, streamVars>>

\* Line 345: the row is written back as cancelled, and the outcome of the
\* write is what CancelImport returns.
CancelImportUpdate(c, err) ==
    /\ calls[c].op = "CancelImport" /\ calls[c].pc = "update"
    /\ Fault(err)
    /\ db' = IF err THEN db ELSE UpdateImportJob(db, calls[c].jobID, calls[c].job)
    /\ calls' = RemoveAt(calls, c)
    /\ ret' = Returned("CancelImport", calls[c].jobID, IF err THEN DBError ELSE NoErr)
    /\ UNCHANGED <<jobs, ctxDone, workers, up, storeVars, geoVars, streamVars>>

(***************************************************************************)
(* runImport (lines 351-502), the worker of context w.  Where it writes    *)
(* its job row the write can fail; the worker drops or logs the error and  *)
(* goes on with the record it holds.                                       *)
(***************************************************************************)
\* Lines 359-363: the worker reads its job row; without a row, or when the
\* read fails, it returns.
WorkerStart(w, err) ==
    /\ workers[w].pc = "start"
    /\ Fault(err)
    /\ LET job == GetImportJob(db, workers[w].jobID)
       IN workers' = [workers EXCEPT ![w] =
            IF err \/ job = NoJob THEN [@ EXCEPT !.pc = "defer"]
            ELSE [@ EXCEPT !.pc = "loop", !.job = job]]
    /\ UNCHANGED <<db, jobs, ctxDone, calls, ret, up, storeVars, geoVars, streamVars>>

\* Lines 390-403: the top of the page loop.  A cancelled context makes the
\* worker write its record as cancelled (the error of a failed write is
\* dropped), broadcast it and return; otherwise the fetch of the page
\* begins.
WorkerLoop(w, err) ==
    /\ workers[w].pc = "loop"
    /\ err => w \in ctxDone
    /\ Fault(err)
    /\ IF w \in ctxDone
       THEN LET job == [workers[w].job EXCEPT !.status = "cancelled", !.completedAt = TRUE]
            IN /\ db' = IF err THEN db ELSE UpdateImportJob(db, workers[w].jobID, job)
               /\ workers' = [workers EXCEPT ![w] =
                     Broadcasting([@ EXCEPT !.job = job],
                                  ProgressOf(workers[w].jobID, job), "defer")]
       ELSE /\ workers' = [workers EXCEPT ![w].pc = "fetching",
                                          ![w].fetched = Append(@, workers[w].page)]
            /\ db' = db
    /\ UNCHANGED <<jobs, ctxDone, calls, ret, up, storeVars, geoVars, streamVars>>

\* Line 403: SearchAssets returns the page.
WorkerFetchOK(w) ==
    /\ workers[w].pc = "fetching"
    /\ LET assets == AssetsOnPage(workers[w].page)
       IN workers' = [workers EXCEPT ![w].pc = IF assets = <<>> THEN "checkpoint" ELSE "asset",
                                     ![w].assets = assets,
                                     ![w].i = IF assets = <<>> THEN 0 ELSE 1,
                                     ![w].hasMore = HasMore(workers[w].page)]
    /\ UNCHANGED <<db, jobs, ctxDone, calls, ret, events, up, storeVars, geoVars, streamVars>>

\* Lines 420-463: the next asset of the page is processed; its insert is a
\* transaction of its own and may meet a database error.  After the last
\* asset the checkpoint follows.
WorkerAsset(w, fail) ==
    /\ workers[w].pc = "asset"
    /\ fail => workers[w].i \in Insertable(workers[w].config, workers[w].assets)
    /\ Fault(fail)
    /\ LET res == ProcessAsset(workers[w].job, locations, workers[w].config,
                               workers[w].assets[workers[w].i], fail)
           last == workers[w].i = Len(workers[w].assets)
       IN /\ workers' = [workers EXCEPT ![w].job = res.job,
                                        ![w].pc = IF last THEN "checkpoint" ELSE @,
                                        ![w].assets = IF last THEN <<>> ELSE @,
                                        ![w].i = IF last THEN 0 ELSE @ + 1]
          /\ locations' = res.table
    /\ UNCHANGED <<db, jobs, ctxDone, calls, ret, up, paths, lastIngest, ops, geoVars, streamVars>>

\* Lines 403-418: SearchAssets returns an error, because the request failed
\* or because its context was cancelled under it; the job is written as
\* failed (the error of a failed write is dropped), the failure is
\* broadcast and the worker returns.
WorkerFetchErr(w, err) ==
    /\ workers[w].pc = "fetching"
    /\ Spend((IF w \in ctxDone THEN 0 ELSE 1) + (IF err THEN 1 ELSE 0))
    /\ LET job == [workers[w].job EXCEPT !.status = "failed", !.completedAt = TRUE,
                       !.lastError = IF w \in ctxDone THEN "context canceled" ELSE "search failed"]
       IN /\ db' = IF err THEN db ELSE UpdateImportJob(db, workers[w].jobID, job)
          /\ workers' = [workers EXCEPT ![w] =
                Broadcasting([@ EXCEPT !.job = job],
                             FailureOf(workers[w].jobID, job), "defer")]
    /\ UNCHANGED <<jobs, ctxDone, calls, ret, up, storeVars, geoVars, streamVars>>

\* Lines 465-469: the checkpoint after a page; a failed write is logged.
\* Its broadcast (line 472) and the test of hasMore follow.
WorkerCheckpoint(w, err) ==
    /\ workers[w].pc = "checkpoint"
    /\ Fault(err)
    /\ LET job == [workers[w].job EXCEPT !.lastPage = workers[w].page]
       IN /\ db' = IF err THEN db ELSE UpdateImportJob(db, workers[w].jobID, job)
          /\ workers' = [workers EXCEPT ![w] =
                Broadcasting([@ EXCEPT !.job = job,
                                       !.page = IF workers[w].hasMore THEN @ + 1 ELSE @],
                             ProgressOf(workers[w].jobID, job),
                             IF workers[w].hasMore THEN "loop" ELSE "complete")]
    /\ UNCHANGED <<jobs, ctxDone, calls, ret, up, storeVars, geoVars, streamVars>>

\* Lines 479-485: the job is written as completed; a failed write is
\* logged.  The final broadcast (line 488) follows.
WorkerComplete(w, err) ==
    /\ workers[w].pc = "complete"
    /\ Fault(err)
    /\ LET job == [workers[w].job EXCEPT !.status = "completed", !.completedAt = TRUE]
       IN /\ db' = IF err THEN db ELSE UpdateImportJob(db, workers[w].jobID, job)
          /\ workers' = [workers EXCEPT ![w] =
                Broadcasting([@ EXCEPT !.job = job],
                             ProgressOf(workers[w].jobID, job), "rebuild")]
    /\ UNCHANGED <<jobs, ctxDone, calls, ret, up, storeVars, geoVars, streamVars>>

\* broadcast's first lines (107-109): the subscriber list is read under the
\* lock.  Without subscribers broadcast returns.
WorkerBroadcast(w) ==
    /\ workers[w].pc = "broadcast" /\ ~Locked
    /\ workers' = [workers EXCEPT ![w] =
          IF SubscribersOf(workers[w].jobID) = <<>>
          THEN Broadcasted(@)
          ELSE [@ EXCEPT !.pc = "send", !.subs = SubscribersOf(workers[w].jobID),
                         !.array = SliceOf(workers[w].jobID).array, !.pos = 1]]
    /\ UNCHANGED <<db, jobs, ctxDone, calls, ret, events, up, storeVars, geoVars, streamVars>>

\* One pass of broadcast's loop (lines 111-117): the send to the subscriber
\* at position pos of the list it read.  A send on a channel that has been
\* closed panics, and the process dies with it.
WorkerSend(w) ==
    /\ workers[w].pc = "send"
    /\ LET c == workers[w].subs[workers[w].pos]
       IN IF chans[c].closes > 0
          THEN /\ up' = FALSE
               /\ jobs' = <<>> /\ ctxDone' = {} /\ workers' = <<>> /\ calls' = <<>>
               /\ streams' = <<>> /\ chans' = <<>>
          ELSE /\ chans' = [chans EXCEPT ![c] = TrySend(@, workers[w].progress)]
               /\ workers' = [workers EXCEPT ![w] =
                     IF workers[w].pos = Len(workers[w].subs)
                     THEN Broadcasted(@)
                     ELSE [@ EXCEPT !.pos = @ + 1]]
               /\ UNCHANGED <<jobs, ctxDone, calls, up, streams>>
    /\ UNCHANGED <<db, ret, events, pages, storeVars, geoVars>>

\* Lines 490-498 and RebuildAllPaths lines 583-605: when something was
\* imported the rebuild begins; both index tables are emptied and the
\* transaction commits, or it fails and is rolled back, which the worker
\* logs before it returns.
WorkerRebuild(w, err) ==
    /\ workers[w].pc = "rebuild"
    /\ err => workers[w].job.imported > 0 /\ events < MaxEvents
    /\ events' = IF err THEN events + 1 ELSE events
    /\ IF workers[w].job.imported > 0 /\ ~err
       THEN /\ paths' = {}
            /\ workers' = [workers EXCEPT ![w].pc = "rebuildQuery"]
       ELSE /\ paths' = paths
            /\ workers' = [workers EXCEPT ![w].pc = "defer"]
    /\ UNCHANGED <<db, jobs, ctxDone, calls, ret, up, locations, lastIngest, ops, geoVars, streamVars>>

\* RebuildAllPaths lines 609-627: all the samples are read and the paths
\* computed.
WorkerRebuildQuery(w) ==
    /\ workers[w].pc = "rebuildQuery"
    /\ LET computed == RebuildAllPaths(locations)
       IN workers' = [workers EXCEPT ![w].pc = IF computed = {} THEN "defer" ELSE "rebuildStore",
                                     ![w].pending = computed]
    /\ UNCHANGED <<db, jobs, ctxDone, calls, ret, events, up, storeVars, geoVars, streamVars>>

\* RebuildAllPaths lines 630-634: one of the computed paths is stored in a
\* transaction of its own, in the order the map yields them; an error ends
\* the rebuild, which the worker only logs.
WorkerRebuildStore(w, err) ==
    /\ workers[w].pc = "rebuildStore"
    /\ IF err
       THEN /\ events < MaxEvents /\ events' = events + 1
            /\ paths' = paths
            /\ workers' = [workers EXCEPT ![w].pc = "defer", ![w].pending = {}]
       ELSE /\ events' = events
            /\ \E path \in workers[w].pending :
                  /\ paths' = CreateOrUpdatePath(paths, path)
                  /\ workers' = [workers EXCEPT
                        ![w].pending = @ \ {path},
                        ![w].pc = IF workers[w].pending = {path} THEN "defer" ELSE @]
    /\ UNCHANGED <<db, jobs, ctxDone, calls, ret, up, locations, lastIngest, ops, geoVars, streamVars>>

\* Lines 352-355, the deferred function: whatever handle is registered for
\* the job id is removed under the lock; closeStreams follows.
WorkerExit(w) ==
    /\ workers[w].pc = "defer" /\ ~Locked
    /\ jobs' = Unregister(jobs, workers[w].jobID)
    /\ workers' = [workers EXCEPT ![w].pc = "closeStreams"]
    /\ UNCHANGED <<db, ctxDone, calls, ret, events, up, storeVars, geoVars, streamVars>>

\* closeStreams lines 122-125: the job's subscribers are taken and forgotten
\* under the lock.  With none to close, the goroutine ends.
WorkerCloseStreams(w) ==
    /\ workers[w].pc = "closeStreams" /\ ~Locked
    /\ streams' = [k \in DOMAIN streams \ {workers[w].jobID} |-> streams[k]]
    /\ IF SubscribersOf(workers[w].jobID) = <<>>
       THEN /\ workers' = [v \in DOMAIN workers \ {w} |-> workers[v]]
            /\ ctxDone' = ctxDone \ {w}
       ELSE /\ workers' = [workers EXCEPT ![w].pc = "close",
                                          ![w].subs = SubscribersOf(workers[w].jobID),
                                          ![w].pos = 1]
            /\ ctxDone' = ctxDone
    /\ UNCHANGED <<db, jobs, calls, ret, events, up, pages, chans, storeVars, geoVars>>

\* closeStreams lines 127-129: the next of the channels it took is closed,
\* without the lock.  After the last the goroutine ends.
WorkerClose(w) ==
    /\ workers[w].pc = "close"
    /\ chans' = [chans EXCEPT ![workers[w].subs[workers[w].pos]].closes = @ + 1]
    /\ IF workers[w].pos = Len(workers[w].subs)
       THEN /\ workers' = [v \in DOMAIN workers \ {w} |-> workers[v]]
            /\ ctxDone' = ctxDone \ {w}
       ELSE /\ workers' = [workers EXCEPT ![w].pos = @ + 1]
            /\ ctxDone' = ctxDone
    /\ UNCHANGED <<db, jobs, calls, ret, events, up, pages, streams, storeVars, geoVars>>

(***************************************************************************)
(* Subscribe (lines 79-103) and the consumers of its channels.             *)
(***************************************************************************)
\* Lines 80-84: a channel is made and appended to the job's subscribers.  An
\* append in place writes the array position after the slice's last.
Subscribe(jobID, owner) ==
    /\ up /\ ~Locked
    /\ \A c \in DOMAIN chans : chans[c].owner # owner
    /\ chans' = Append(chans, NewChan(jobID, owner))
    /\ LET slice == AppendSlice(SliceOf(jobID), Len(chans) + 1)
       IN /\ streams' = [k \in DOMAIN streams \cup {jobID} |->
                           IF k = jobID THEN slice ELSE streams[k]]
          /\ workers' \in AfterWrite(jobID,
                                     IF slice.array = SliceOf(jobID).array
                                     THEN {Len(slice.subs)} ELSE {},
                                     slice.subs)
    /\ UNCHANGED <<db, jobs, ctxDone, calls, ret, events, up, pages, storeVars, geoVars>>

\* Lines 86-92, the unsubscribe function of channel c: it takes the lock
\* and looks for the channel among the job's subscribers, where it is at
\* position i.  A channel that is not among them has been closed by
\* closeStreams, and the function returns.
Unsubscribe(c) ==
    /\ up /\ ~Locked
    /\ LET subs == SubscribersOf(chans[c].jobID)
       IN /\ \E i \in 1..Len(subs) : subs[i] = c
          /\ chans' = [chans EXCEPT ![c].unsub = CHOOSE i \in 1..Len(subs) : subs[i] = c]
    /\ UNCHANGED <<db, jobs, ctxDone, workers, calls, ret, events, up, pages, streams,
                   storeVars, geoVars>>

\* Line 94, append(subs[:i], subs[i+1:]...): the later elements are moved
\* one position down in the same array, a word at a time from the lowest
\* position up; this is the store of the word at position unsub.
UnsubscribeMove(c) ==
    /\ up /\ chans[c].unsub > 0
    /\ LET subs == SubscribersOf(chans[c].jobID)
           k == chans[c].unsub
       IN /\ k < Len(subs)
          /\ LET after == [subs EXCEPT ![k] = subs[k + 1]]
             IN /\ streams' = [streams EXCEPT ![chans[c].jobID].subs = after]
                /\ workers' \in AfterWrite(chans[c].jobID, {k}, after)
          /\ chans' = [chans EXCEPT ![c].unsub = k + 1]
    /\ UNCHANGED <<db, jobs, ctxDone, calls, ret, events, up, pages, storeVars, geoVars>>

\* Lines 94-96 and the deferred unlock: the shortened slice is assigned to
\* the map, the channel is closed and the lock released.
UnsubscribeClose(c) ==
    /\ up /\ chans[c].unsub > 0
    /\ LET subs == SubscribersOf(chans[c].jobID)
       IN /\ chans[c].unsub = Len(subs)
          /\ streams' = [streams EXCEPT ![chans[c].jobID].subs = SubSeq(subs, 1, Len(subs) - 1)]
    /\ chans' = [chans EXCEPT ![c].closes = @ + 1, ![c].unsub = 0]
    /\ UNCHANGED <<db, jobs, ctxDone, workers, calls, ret, events, up, pages, storeVars, geoVars>>

\* The consumer takes the oldest snapshot out of its channel.
Receive(c) ==
    /\ up
    /\ chans[c].owner = Consumers[2]
    /\ Len(chans[c].buf) > 0
    /\ chans' = [chans EXCEPT ![c].buf = Tail(@)]
    /\ UNCHANGED <<db, jobs, ctxDone, workers, calls, ret, events, up, pages, streams,
                   storeVars, geoVars>>

(***************************************************************************)
(* The process dies and is started again: its goroutines and its registry  *)
(* are gone, and NewBackfillManager (lines 63-75) runs markInterruptedJobs *)
(* before any request is served.                                           *)
(***************************************************************************)
NoRet == Returned("none", 0, NoErr)

NewBackfillManager(listErr, failed) ==
    /\ db' = markInterruptedJobs(db, listErr, failed)
    /\ jobs' = <<>>
    /\ ctxDone' = {}
    /\ workers' = <<>>
    /\ calls' = <<>>
    /\ ret' = NoRet
    /\ up' = TRUE
    /\ streams' = <<>>
    /\ chans' = <<>>

\* The faults a run of markInterruptedJobs over the table can meet: the
\* list fails, or the updates of some of the running rows it lists.
StartupFaults ==
    { <<FALSE, failed>> : failed \in SUBSET ListedRunning(db) } \cup { <<TRUE, {}>> }

FaultsIn(f) == (IF f[1] THEN 1 ELSE 0) + Cardinality(f[2])

Restart ==
    /\ up
    /\ \E f \in StartupFaults :
          /\ Spend(1 + FaultsIn(f))
          /\ NewBackfillManager(f[1], f[2])
    /\ UNCHANGED <<pages, storeVars, geoVars>>

IdleStreams == pages = MaxPages /\ streams = <<>> /\ chans = <<>>
NoIngest == [op |-> "none", failed |-> FALSE]
IdleStore == locations = {} /\ paths = {} /\ lastIngest = NoIngest /\ ops = <<>>
IdleGeo == gIn = <<>> /\ gParam = 0 /\ gOut = <<>> /\ gPc = "idle"

Init ==
    /\ db = <<>> /\ jobs = <<>> /\ ctxDone = {} /\ workers = <<>> /\ calls = <<>>
    /\ ret = NoRet /\ events = 0 /\ up = TRUE
    /\ IdleStore /\ IdleGeo /\ IdleStreams

Next ==
    \/ \E config \in Configs, err \in BOOLEAN : StartImportCreate(config, err)
    \/ \E c \in DOMAIN calls : StartImportRegister(c)
    \/ \E c \in DOMAIN calls : StartImportLaunch(c)
    \/ \E c \in DOMAIN calls : StartImportReturn(c)
    \/ \E jobID \in 1..(Len(db) + 1), err \in BOOLEAN : ResumeImportGet(jobID, err)
    \/ \E c \in DOMAIN calls, err \in BOOLEAN : ResumeImportUpdate(c, err)
    \/ \E c \in DOMAIN calls : ResumeImportRegister(c)
    \/ \E c \in DOMAIN calls : ResumeImportLaunch(c)
    \/ \E c \in DOMAIN calls : ResumeImportReturn(c)
    \/ \E jobID \in 1..(Len(db) + 1) : CancelImportSignal(jobID)
    \/ \E c \in DOMAIN calls, err \in BOOLEAN : CancelImportGet(c, err)
    \/ \E c \in DOMAIN calls, err \in BOOLEAN : CancelImportUpdate(c, err)
    \/ \E w \in DOMAIN workers, err \in BOOLEAN : WorkerStart(w, err)
    \/ \E w \in DOMAIN workers, err \in BOOLEAN : WorkerLoop(w, err)
    \/ \E w \in DOMAIN workers : WorkerFetchOK(w)
    \/ \E w \in DOMAIN workers, fail \in BOOLEAN : WorkerAsset(w, fail)
    \/ \E w \in DOMAIN workers, err \in BOOLEAN : WorkerFetchErr(w, err)
    \/ \E w \in DOMAIN workers, err \in BOOLEAN : WorkerCheckpoint(w, err)
    \/ \E w \in DOMAIN workers, err \in BOOLEAN : WorkerComplete(w, err)
    \/ \E w \in DOMAIN workers : WorkerBroadcast(w)
    \/ \E w \in DOMAIN workers, err \in BOOLEAN : WorkerRebuild(w, err)
    \/ \E w \in DOMAIN workers : WorkerRebuildQuery(w)
    \/ \E w \in DOMAIN workers, err \in BOOLEAN : WorkerRebuildStore(w, err)
    \/ \E w \in DOMAIN workers : WorkerExit(w)
    \/ \E w \in DOMAIN workers : WorkerCloseStreams(w)
    \/ Restart

Spec == Init /\ [][Next]_vars

(***************************************************************************)
(* SpecLive: one import from the return of its StartImport on, with two    *)
(* further requests or faults.  The process is not killed, every goroutine *)
(* that can take a step eventually takes one, and every request that has   *)
(* begun is carried to its return.                                         *)
(***************************************************************************)
InitLive ==
    /\ \E config \in Configs :
          /\ db = <<NewJobRow(jsonMarshal(config))>>
          /\ workers = [w \in {1} |-> NewWorker(1, config, 1, FALSE, 0)]
    /\ jobs = [k \in {1} |-> 1]
    /\ ctxDone = {} /\ calls = <<>>
    /\ ret = Returned("StartImport", 1, NoErr)
    /\ events = MaxEvents - 2 /\ up = TRUE
    /\ IdleStore /\ IdleGeo /\ IdleStreams

WorkerStep ==
    \E w \in DOMAIN workers :
        \/ \E err \in BOOLEAN :
              \/ WorkerStart(w, err) \/ WorkerLoop(w, err) \/ WorkerFetchErr(w, err)
              \/ WorkerCheckpoint(w, err) \/ WorkerComplete(w, err)
              \/ WorkerRebuild(w, err) \/ WorkerRebuildStore(w, err)
        \/ \E fail \in BOOLEAN : WorkerAsset(w, fail)
        \/ WorkerFetchOK(w) \/ WorkerBroadcast(w) \/ WorkerRebuildQuery(w)
        \/ WorkerExit(w) \/ WorkerCloseStreams(w)

CallStep ==
    \E c \in DOMAIN calls :
        \/ ResumeImportRegister(c) \/ ResumeImportLaunch(c) \/ ResumeImportReturn(c)
        \/ \E err \in BOOLEAN :
              \/ ResumeImportUpdate(c, err)
              \/ CancelImportGet(c, err) \/ CancelImportUpdate(c, err)

NextLive ==
    \/ \E jobID \in 1..(Len(db) + 1), err \in BOOLEAN : ResumeImportGet(jobID, err)
    \/ \E jobID \in 1..(Len(db) + 1) : CancelImportSignal(jobID)
    \/ CallStep
    \/ WorkerStep

SpecLive == InitLive /\ [][NextLive]_vars /\ WF_vars(WorkerStep) /\ WF_vars(CallStep)

(***************************************************************************)
(* SpecResume: the manager is constructed over a job table that holds one  *)
(* job of an earlier life of the process, an import without a camera       *)
(* filter, which died before the job's first checkpoint;                   *)
(* NewBackfillManager has marked it interrupted.  No new import is         *)
(* started: the one of the earlier life was the first of the MaxEvents     *)
(* requests and faults.                                                    *)
(***************************************************************************)
InitResume ==
    /\ db = markInterruptedJobs(<<NewJobRow(jsonMarshal(Unfiltered))>>, FALSE, {})
    /\ jobs = <<>> /\ ctxDone = {} /\ workers = <<>> /\ calls = <<>>
    /\ ret = NoRet /\ events = 1 /\ up = TRUE
    /\ IdleStore /\ IdleGeo /\ IdleStreams

NextResume ==
    \/ \E jobID \in 1..(Len(db) + 1), err \in BOOLEAN : ResumeImportGet(jobID, err)
    \/ \E c \in DOMAIN calls, err \in BOOLEAN : ResumeImportUpdate(c, err)
    \/ \E c \in DOMAIN calls : ResumeImportRegister(c)
    \/ \E c \in DOMAIN calls : ResumeImportLaunch(c)
    \/ \E c \in DOMAIN calls : ResumeImportReturn(c)
    \/ \E jobID \in 1..(Len(db) + 1) : CancelImportSignal(jobID)
    \/ \E c \in DOMAIN calls, err \in BOOLEAN : CancelImportGet(c, err)
    \/ \E c \in DOMAIN calls, err \in BOOLEAN : CancelImportUpdate(c, err)
    \/ \E w \in DOMAIN workers, err \in BOOLEAN : WorkerStart(w, err)
    \/ \E w \in DOMAIN workers, err \in BOOLEAN : WorkerLoop(w, err)
    \/ \E w \in DOMAIN workers : WorkerFetchOK(w)
    \/ \E w \in DOMAIN workers, fail \in BOOLEAN : WorkerAsset(w, fail)
    \/ \E w \in DOMAIN workers, err \in BOOLEAN : WorkerFetchErr(w, err)
    \/ \E w \in DOMAIN workers, err \in BOOLEAN : WorkerCheckpoint(w, err)
    \/ \E w \in DOMAIN workers, err \in BOOLEAN : WorkerComplete(w, err)
    \/ \E w \in DOMAIN workers : WorkerBroadcast(w)
    \/ \E w \in DOMAIN workers, err \in BOOLEAN : WorkerRebuild(w, err)
    \/ \E w \in DOMAIN workers : WorkerRebuildQuery(w)
    \/ \E w \in DOMAIN workers, err \in BOOLEAN : WorkerRebuildStore(w, err)
    \/ \E w \in DOMAIN workers : WorkerExit(w)
    \/ \E w \in DOMAIN workers : WorkerCloseStreams(w)
    \/ Restart

SpecResume == InitResume /\ [][NextResume]_vars

(***************************************************************************)
(* SpecStream: one import over a source of more pages than a channel       *)
(* buffers, with consumers that subscribe to it, read and unsubscribe.  It *)
(* starts where StartImport has returned; no further request is made and   *)
(* no fault is met.                                                        *)
(***************************************************************************)
InitStream ==
    /\ \E config \in Configs :
          /\ db = <<NewJobRow(jsonMarshal(config))>>
          /\ workers = [w \in {1} |-> NewWorker(1, config, 1, FALSE, 0)]
    /\ jobs = [k \in {1} |-> 1]
    /\ ctxDone = {} /\ calls = <<>>
    /\ ret = Returned("StartImport", 1, NoErr)
    /\ events = MaxEvents /\ up = TRUE
    /\ pages = StreamCapacity + 1 /\ streams = <<>> /\ chans = <<>>
    /\ IdleStore /\ IdleGeo

NextStream ==
    \/ \E w \in DOMAIN workers : WorkerStart(w, FALSE)
    \/ \E w \in DOMAIN workers : WorkerLoop(w, FALSE)
    \/ \E w \in DOMAIN workers : WorkerFetchOK(w)
    \/ \E w \in DOMAIN workers : WorkerAsset(w, FALSE)
    \/ \E w \in DOMAIN workers : WorkerCheckpoint(w, FALSE)
    \/ \E w \in DOMAIN workers : WorkerBroadcast(w)
    \/ \E w \in DOMAIN workers : WorkerSend(w)
    \/ \E w \in DOMAIN workers : WorkerComplete(w, FALSE)
    \/ \E w \in DOMAIN workers : WorkerRebuild(w, FALSE)
    \/ \E w \in DOMAIN workers : WorkerRebuildQuery(w)
    \/ \E w \in DOMAIN workers : WorkerRebuildStore(w, FALSE)
    \/ \E w \in DOMAIN workers : WorkerExit(w)
    \/ \E w \in DOMAIN workers : WorkerCloseStreams(w)
    \/ \E w \in DOMAIN workers : WorkerClose(w)
    \/ \E jobID \in 1..Len(db), i \in 1..Len(Consumers) : Subscribe(jobID, Consumers[i])
    \/ \E c \in DOMAIN chans : Unsubscribe(c)
    \/ \E c \in DOMAIN chans : UnsubscribeMove(c)
    \/ \E c \in DOMAIN chans : UnsubscribeClose(c)
    \/ \E c \in DOMAIN chans : Receive(c)

SpecStream == InitStream /\ [][NextStream]_vars

(***************************************************************************)
(* SpecMove: one import over a source of one page, with three consumers    *)
(* that subscribe to it, read and unsubscribe, so that an unsubscribe      *)
(* moves more than one element of the list a broadcast is going through.   *)
(* It starts where StartImport has returned; no further request is made    *)
(* and no fault is met.                                                    *)
(***************************************************************************)
MoveConsumers == Append(Consumers, "late")

InitMove ==
    /\ \E config \in Configs :
          /\ db = <<NewJobRow(jsonMarshal(config))>>
          /\ workers = [w \in {1} |-> NewWorker(1, config, 1, FALSE, 0)]
    /\ jobs = [k \in {1} |-> 1]
    /\ ctxDone = {} /\ calls = <<>>
    /\ ret = Returned("StartImport", 1, NoErr)
    /\ events = MaxEvents /\ up = TRUE
    /\ pages = 1 /\ streams = <<>> /\ chans = <<>>
    /\ IdleStore /\ IdleGeo

NextMove ==
    \/ \E w \in DOMAIN workers : WorkerStart(w, FALSE)
    \/ \E w \in DOMAIN workers : WorkerLoop(w, FALSE)
    \/ \E w \in DOMAIN workers : WorkerFetchOK(w)
    \/ \E w \in DOMAIN workers : WorkerAsset(w, FALSE)
    \/ \E w \in DOMAIN workers : WorkerCheckpoint(w, FALSE)
    \/ \E w \in DOMAIN workers : WorkerBroadcast(w)
    \/ \E w \in DOMAIN workers : WorkerSend(w)
    \/ \E w \in DOMAIN workers : WorkerComplete(w, FALSE)
    \/ \E w \in DOMAIN workers : WorkerRebuild(w, FALSE)
    \/ \E w \in DOMAIN workers : WorkerRebuildQuery(w)
    \/ \E w \in DOMAIN workers : WorkerRebuildStore(w, FALSE)
    \/ \E w \in DOMAIN workers : WorkerExit(w)
    \/ \E w \in DOMAIN workers : WorkerCloseStreams(w)
    \/ \E w \in DOMAIN workers : WorkerClose(w)
    \/ \E jobID \in 1..Len(db), i \in 1..Len(MoveConsumers) : Subscribe(jobID, MoveConsumers[i])
    \/ \E c \in DOMAIN chans : Unsubscribe(c)
    \/ \E c \in DOMAIN chans : UnsubscribeMove(c)
    \/ \E c \in DOMAIN chans : UnsubscribeClose(c)
    \/ \E c \in DOMAIN chans : Receive(c)

SpecMove == InitMove /\ [][NextMove]_vars

(***************************************************************************)
(* SpecStartup: a process starts on a job table an earlier process left.   *)
(* The table holds up to MaxStored jobs, up to two of them running and the *)
(* others completed.                                                       *)
(***************************************************************************)
StoredRow(status) ==
    [NewJobRow(jsonMarshal([Cameras |-> <<>>, UserID |-> "u1"])) EXCEPT !.status = status]

StoredTable(n, running) ==
    [id \in 1..n |-> StoredRow(IF id \in running THEN "running" ELSE "completed")]

InitStartup ==
    /\ \E n \in 0..MaxStored : \E a, b \in 0..n : db = StoredTable(n, {a, b} \ {0})
    /\ jobs = <<>> /\ ctxDone = {} /\ workers = <<>> /\ calls = <<>>
    /\ ret = NoRet /\ events = 0 /\ up = FALSE
    /\ IdleStore /\ IdleGeo /\ IdleStreams

Startup ==
    /\ ~up
    /\ \E f \in StartupFaults :
          /\ Spend(FaultsIn(f))
          /\ NewBackfillManager(f[1], f[2])
    /\ UNCHANGED <<pages, storeVars, geoVars>>

NextStartup == Startup

SpecStartup == InitStartup /\ [][NextStartup]_vars

(***************************************************************************)
(* The requests that write the sample store and the path index, statement  *)
(* by statement.  handleOwnTracks and handleGPSLogger insert their sample  *)
(* and call UpdatePathsForLocations; handleImportTimeline inserts its      *)
(* locations chunk by chunk, one transaction each, and calls               *)
(* UpdatePathsForLocations when a row was inserted.                        *)
(* UpdatePathsForLocations reads, for each (user, date) of its batch, the  *)
(* samples of that user and date, and CreateOrUpdatePath stores the path   *)
(* computed from them in a transaction of its own.  RebuildAllPaths        *)
(* commits the deletion of the index, reads all the samples, and stores    *)
(* the computed paths one transaction each.  A statement that writes may   *)
(* meet a database error, which rolls its transaction back.  A frame of    *)
(* ops carries the request's batch, the index (before) and the samples     *)
(* (stored) as they were when the request began, and solo: that no other   *)
(* request has been in progress since.  lastIngest is what the last        *)
(* request that returned reported, and whether any has met an error.       *)
(*                                                                         *)
(* The samples lie one second before and at a UTC midnight on the          *)
(* Greenwich meridian, the second device one degree north of the first and  *)
(* the GPS logger two; one of them is also reported from 15 degrees east,  *)
(* where the local date is already the next day.                           *)
(***************************************************************************)
MaxBatch == 2

\* handleImportTimeline's batchSize (line 599).
batchSize == 1000

IngestTimes == {SecondsPerDay - 1, SecondsPerDay}

Sample(t, device, lon) ==
    [Timestamp |-> t, UserID |-> "u1", DeviceID |-> device,
     Lat |-> DeviceRank(device) - 1, Lon |-> lon]

Samples ==
    { Sample(t, Devices[d], 0) : t \in IngestTimes, d \in 1..Len(Devices) }
       \cup { Sample(SecondsPerDay - 1, Devices[1], 15) }

\* What handleGPSLogger is asked to store.
GPSSamples == { Sample(SecondsPerDay, GPSLoggerDevice, 0) }

\* What handleImportTimeline is asked to store: the positions of one
\* upload, which ExtractLocations gives the upload's one device id.
Batches ==
    UNION { [1..n -> { loc \in Samples : loc.DeviceID = Devices[d] }] :
            n \in 0..MaxBatch, d \in 1..Len(Devices) }

NoPath == [Date |-> -1]

NewIndexOp(op, batch, pc) ==
    [op |-> op, batch |-> batch, pc |-> pc, next |-> 1, inserted |-> 0, skipped |-> 0,
     keys |-> {}, path |-> NoPath, pending |-> {},
     before |-> paths, stored |-> locations, solo |-> ops = <<>>]

\* The frames in progress when another request arrives.
Joined == [o \in DOMAIN ops |-> [ops[o] EXCEPT !.solo = FALSE]]

\* A request arrives: alone, when no other is in progress, or while others
\* are served, as one of at most MaxEvents requests and faults.
Arrives(alone) ==
    IF alone THEN ops = <<>> /\ events' = events
    ELSE events < MaxEvents /\ events' = events + 1

\* What lastIngest holds when the request of frame f returns.
Report(f, err) ==
    [op |-> f.op, batch |-> f.batch, before |-> f.stored,
     inserted |-> f.inserted, skipped |-> f.skipped, solo |-> f.solo,
     failed |-> err \/ lastIngest.failed]

\* The request of frame o returns.
IndexReturn(o, f, err) ==
    /\ ops' = RemoveAt(ops, o)
    /\ lastIngest' = Report(f, err)

\* handleOwnTracks (handlers.go lines 29-72) from its decoded location
\* message on.
BeginOwnTracks(loc, alone) ==
    /\ Arrives(alone)
    /\ ops' = Append(Joined, NewIndexOp("handleOwnTracks", <<loc>>, "insert"))
    /\ UNCHANGED <<locations, paths, lastIngest, db, jobs, ctxDone, workers, calls, ret, up,
                   streamVars, geoVars>>

\* handleGPSLogger (handlers.go lines 74-131) from its parsed query on.
BeginGPSLogger(loc, alone) ==
    /\ Arrives(alone)
    /\ ops' = Append(Joined, NewIndexOp("handleGPSLogger", <<loc>>, "insert"))
    /\ UNCHANGED <<locations, paths, lastIngest, db, jobs, ctxDone, workers, calls, ret, up,
                   streamVars, geoVars>>

\* handleImportTimeline from the extracted locations on (line 583).
BeginImportTimeline(locs, alone) ==
    /\ Arrives(alone)
    /\ ops' = Append(Joined, NewIndexOp("handleImportTimeline", locs, "chunk"))
    /\ UNCHANGED <<locations, paths, lastIngest, db, jobs, ctxDone, workers, calls, ret, up,
                   streamVars, geoVars>>

\* handleAPIPathsRebuild (handlers.go lines 238-251).
BeginRebuild(alone) ==
    /\ Arrives(alone)
    /\ ops' = Append(Joined, NewIndexOp("handleAPIPathsRebuild", <<>>, "delete"))
    /\ UNCHANGED <<locations, paths, lastIngest, db, jobs, ctxDone, workers, calls, ret, up,
                   streamVars, geoVars>>

\* UpdatePathsForLocations lines 646-652: the (user, date) keys of a batch.
KeysOf(locs) == { PathKey(locs[i]) : i \in 1..Len(locs) }

\* handleOwnTracks, handleGPSLogger: InsertLocation (handlers.go lines 61,
\* 121).  A database error ends the request with status 500, before any
\* path update.
OwnTracksInsert(o, err) ==
    /\ ops[o].op \in {"handleOwnTracks", "handleGPSLogger"} /\ ops[o].pc = "insert"
    /\ Fault(err)
    /\ IF err
       THEN /\ locations' = locations
            /\ IndexReturn(o, ops[o], TRUE)
       ELSE /\ locations' = InsertLocation(locations, ops[o].batch[1])
            /\ ops' = [ops EXCEPT ![o].pc = "query", ![o].keys = KeysOf(ops[o].batch)]
            /\ lastIngest' = lastIngest
    /\ UNCHANGED <<paths, db, jobs, ctxDone, workers, calls, ret, up, streamVars, geoVars>>

\* handleImportTimeline lines 601-632: one pass of the loop over the chunks,
\* InsertLocationBatch in a transaction of its own.  A database error ends
\* the request with the earlier chunks stored and no path update.  After
\* the last chunk the paths are updated when a row was inserted; without
\* locations there is no chunk and no update.
TimelineChunk(o, err) ==
    /\ ops[o].op = "handleImportTimeline" /\ ops[o].pc = "chunk"
    /\ Fault(err)
    /\ IF ops[o].batch = <<>>
       THEN /\ ~err
            /\ locations' = locations
            /\ IndexReturn(o, ops[o], FALSE)
       ELSE IF err
       THEN /\ locations' = locations
            /\ IndexReturn(o, ops[o], TRUE)
       ELSE LET end == Min(ops[o].next + batchSize - 1, Len(ops[o].batch))
                res == InsertLocationBatch(locations, SubSeq(ops[o].batch, ops[o].next, end))
                f == [ops[o] EXCEPT !.next = end + 1,
                                    !.inserted = @ + res.inserted,
                                    !.skipped = @ + res.skipped]
            IN /\ locations' = res.table
               /\ IF end < Len(ops[o].batch)
                  THEN ops' = [ops EXCEPT ![o] = f] /\ lastIngest' = lastIngest
                  ELSE IF f.inserted > 0
                  THEN /\ ops' = [ops EXCEPT ![o] = [f EXCEPT !.pc = "query",
                                                              !.keys = KeysOf(f.batch)]]
                       /\ lastIngest' = lastIngest
                  ELSE IndexReturn(o, f, FALSE)
    /\ UNCHANGED <<paths, db, jobs, ctxDone, workers, calls, ret, up, streamVars, geoVars>>

\* UpdatePathsForLocations lines 655-670: for one of the keys of the batch,
\* in the order the map yields them, the samples of the user and date are
\* read and the path is computed.
UpdatePathsQuery(o) ==
    /\ ops[o].pc = "query"
    /\ \E key \in ops[o].keys :
          LET computed == ComputePathsForLocations(
                             QueryLocationsByUserDate(locations, key[1], key[2]))
              f == [ops[o] EXCEPT !.keys = @ \ {key}]
          IN IF key \in DOMAIN computed
             THEN /\ ops' = [ops EXCEPT ![o] = [f EXCEPT !.pc = "store", !.path = computed[key]]]
                  /\ lastIngest' = lastIngest
             ELSE IF f.keys = {}
             THEN IndexReturn(o, f, FALSE)
             ELSE /\ ops' = [ops EXCEPT ![o] = f]
                  /\ lastIngest' = lastIngest
    /\ UNCHANGED <<locations, paths, bmVars, geoVars>>

\* UpdatePathsForLocations lines 673-675: CreateOrUpdatePath commits, or
\* fails and is rolled back, which ends the update; the handlers ignore the
\* error.
UpdatePathsStore(o, err) ==
    /\ ops[o].pc = "store" /\ ops[o].op # "handleAPIPathsRebuild"
    /\ Fault(err)
    /\ paths' = IF err THEN paths ELSE CreateOrUpdatePath(paths, ops[o].path)
    /\ IF err \/ ops[o].keys = {}
       THEN IndexReturn(o, [ops[o] EXCEPT !.path = NoPath], err)
       ELSE /\ ops' = [ops EXCEPT ![o].pc = "query", ![o].path = NoPath]
            /\ lastIngest' = lastIngest
    /\ UNCHANGED <<locations, db, jobs, ctxDone, workers, calls, ret, up, streamVars, geoVars>>

\* RebuildAllPaths lines 583-605: both tables are emptied and the
\* transaction commits; or a statement of it fails, the transaction is
\* rolled back and the request ends with status 500.
RebuildDelete(o, err) ==
    /\ ops[o].op = "handleAPIPathsRebuild" /\ ops[o].pc = "delete"
    /\ Fault(err)
    /\ IF err
       THEN /\ paths' = paths
            /\ IndexReturn(o, ops[o], TRUE)
       ELSE /\ paths' = {}
            /\ ops' = [ops EXCEPT ![o].pc = "scan"]
            /\ lastIngest' = lastIngest
    /\ UNCHANGED <<locations, db, jobs, ctxDone, workers, calls, ret, up, streamVars, geoVars>>

\* RebuildAllPaths lines 609-627: all the samples are read and the paths
\* computed.
RebuildQuery(o) ==
    /\ ops[o].op = "handleAPIPathsRebuild" /\ ops[o].pc = "scan"
    /\ LET computed == RebuildAllPaths(locations)
       IN IF computed = {}
          THEN IndexReturn(o, ops[o], FALSE)
          ELSE /\ ops' = [ops EXCEPT ![o].pc = "store", ![o].pending = computed]
               /\ lastIngest' = lastIngest
    /\ UNCHANGED <<locations, paths, bmVars, geoVars>>

\* RebuildAllPaths lines 630-634: one of the computed paths is stored, in
\* the order the map yields them; an error ends the rebuild.
RebuildStore(o, err) ==
    /\ ops[o].op = "handleAPIPathsRebuild" /\ ops[o].pc = "store"
    /\ Fault(err)
    /\ IF err
       THEN /\ paths' = paths
            /\ IndexReturn(o, [ops[o] EXCEPT !.pending = {}], TRUE)
       ELSE \E path \in ops[o].pending :
               /\ paths' = CreateOrUpdatePath(paths, path)
               /\ IF ops[o].pending = {path}
                  THEN IndexReturn(o, [ops[o] EXCEPT !.pending = {}], FALSE)
                  ELSE /\ ops' = [ops EXCEPT ![o].pending = @ \ {path}]
                       /\ lastIngest' = lastIngest
    /\ UNCHANGED <<locations, db, jobs, ctxDone, workers, calls, ret, up, streamVars, geoVars>>

\* The import worker's insert of an asset's location (backfill.go line 451),
\* between the requests: the path index is left as it is.
InsertWithSource(loc) ==
    /\ ops = <<>>
    /\ LET res == InsertLocationWithSource(locations, loc, FALSE)
       IN /\ locations' = res.table
          /\ lastIngest' = [op |-> "InsertLocationWithSource", batch |-> <<loc>>,
                            before |-> locations,
                            inserted |-> IF res.inserted THEN 1 ELSE 0,
                            skipped |-> IF res.inserted THEN 0 ELSE 1,
                            solo |-> TRUE, failed |-> lastIngest.failed]
    /\ UNCHANGED <<paths, ops, bmVars, geoVars>>

(***************************************************************************)
(* SpecIngest: the requests arrive one after the other, each when the one  *)
(* before it has returned, and no statement meets a database error.        *)
(***************************************************************************)
InitIngest ==
    /\ db = <<>> /\ jobs = <<>> /\ ctxDone = {} /\ workers = <<>> /\ calls = <<>>
    /\ ret = NoRet /\ events = 0 /\ up = TRUE
    /\ IdleStore /\ IdleGeo /\ IdleStreams

NextIngest ==
    \/ \E loc \in Samples : BeginOwnTracks(loc, TRUE)
    \/ \E loc \in GPSSamples : BeginGPSLogger(loc, TRUE)
    \/ \E locs \in Batches : BeginImportTimeline(locs, TRUE)
    \/ BeginRebuild(TRUE)
    \/ \E loc \in Samples : InsertWithSource(loc)
    \/ \E o \in DOMAIN ops : OwnTracksInsert(o, FALSE)
    \/ \E o \in DOMAIN ops : TimelineChunk(o, FALSE)
    \/ \E o \in DOMAIN ops : UpdatePathsQuery(o)
    \/ \E o \in DOMAIN ops : UpdatePathsStore(o, FALSE)
    \/ \E o \in DOMAIN ops : RebuildDelete(o, FALSE)
    \/ \E o \in DOMAIN ops : RebuildQuery(o)
    \/ \E o \in DOMAIN ops : RebuildStore(o, FALSE)

SpecIngest == InitIngest /\ [][NextIngest]_vars

(***************************************************************************)
(* SpecIndex: up to MaxEvents requests and database errors, the requests   *)
(* served at the same time.  The timeline uploads are those of the first  *)
(* device with two positions, the second of them the one reported from 15  *)
(* degrees east one second before midnight: the two have the same key, or  *)
(* fall on the same local date.                                            *)
(***************************************************************************)
IndexBatches ==
    { <<Sample(t, Devices[1], 0), Sample(SecondsPerDay - 1, Devices[1], 15)>> :
      t \in IngestTimes }

InitIndex ==
    /\ db = <<>> /\ jobs = <<>> /\ ctxDone = {} /\ workers = <<>> /\ calls = <<>>
    /\ ret = NoRet /\ events = 0 /\ up = TRUE
    /\ IdleStore /\ IdleGeo /\ IdleStreams

NextIndex ==
    \/ \E loc \in Samples : BeginOwnTracks(loc, FALSE)
    \/ \E loc \in GPSSamples : BeginGPSLogger(loc, FALSE)
    \/ \E locs \in IndexBatches : BeginImportTimeline(locs, FALSE)
    \/ BeginRebuild(FALSE)
    \/ \E o \in DOMAIN ops, err \in BOOLEAN : OwnTracksInsert(o, err)
    \/ \E o \in DOMAIN ops, err \in BOOLEAN : TimelineChunk(o, err)
    \/ \E o \in DOMAIN ops : UpdatePathsQuery(o)
    \/ \E o \in DOMAIN ops, err \in BOOLEAN : UpdatePathsStore(o, err)
    \/ \E o \in DOMAIN ops, err \in BOOLEAN : RebuildDelete(o, err)
    \/ \E o \in DOMAIN ops : RebuildQuery(o)
    \/ \E o \in DOMAIN ops, err \in BOOLEAN : RebuildStore(o, err)

SpecIndex == InitIndex /\ [][NextIndex]_vars

(***************************************************************************)
(* Path geometry.  A point is [Lat, Lon, Timestamp] with Lat and Lon in    *)
(* whole degrees.  A distance in degrees is kept as its square, the        *)
(* fraction n / d of two integers, so that comparisons are exact:          *)
(* num / sqrt(den2) is [n |-> num^2, d |-> den2].                          *)
(***************************************************************************)
MaxLen == 4

Zero == [n |-> 0, d |-> 1]

\* a > b for two squared distances.
Greater(a, b) == a.n * b.d > b.n * a.d

perpendicularDistanceDeg(point, lineStart, lineEnd) ==
    LET dx == lineEnd.Lon - lineStart.Lon
        dy == lineEnd.Lat - lineStart.Lat
    IN IF dx = 0 /\ dy = 0
       THEN LET dLon == point.Lon - lineStart.Lon
                dLat == point.Lat - lineStart.Lat
            IN [n |-> dLon * dLon + dLat * dLat, d |-> 1]
       ELSE LET num == Abs(dy * point.Lon - dx * point.Lat
                           + lineEnd.Lon * lineStart.Lat - lineEnd.Lat * lineStart.Lon)
            IN [n |-> num * num, d |-> dy * dy + dx * dx]

\* SimplifyPath's loop from index i on (1-based; the code's i is one less):
\* the greatest distance so far and where it was first met.
RECURSIVE FindMax(_, _, _, _)
FindMax(points, i, maxDist, maxIdx) ==
    IF i > Len(points) - 1 THEN [maxDist |-> maxDist, maxIdx |-> maxIdx]
    ELSE LET dist == perpendicularDistanceDeg(points[i], points[1], points[Len(points)])
         IN IF Greater(dist, maxDist)
            THEN FindMax(points, i + 1, dist, i)
            ELSE FindMax(points, i + 1, maxDist, maxIdx)

\* A tolerance is the fraction n / d of a degree (d > 0), not squared.
Degrees(t) == [n |-> t, d |-> 1]

\* The split is taken on the opposite test (and never on a zero distance).
Exceeds_Inverted(maxDist, tolerance) ==
    /\ maxDist.n > 0
    /\ ~(maxDist.n * tolerance.d
            > (tolerance.n * tolerance.n * maxDist.d) \div tolerance.d)

\* The split is taken on a test that a distance, never negative, always
\* passes.
Exceeds_NonNegative(maxDist, tolerance) == maxDist.n >= 0

\* maxDist > tolerance; a distance is never negative.  For integers q and y
\* and d > 0, q * d > y exactly when q > y \div d, which keeps the products
\* small.
Exceeds(maxDist, tolerance) ==
    \/ tolerance.n < 0
    \/ maxDist.n * tolerance.d
          > (tolerance.n * tolerance.n * maxDist.d) \div tolerance.d

\* Both halves are appended whole.
Combine_KeepBoth(left, right) == left \o right

\* append(left[:len(left)-1]..., right...)
Combine(left, right) == SubSeq(left, 1, Len(left) - 1) \o right

\* What a call that never returns leaves: the goroutine's stack grows until
\* the runtime ends the process.
StackOverflow == <<[fatal |-> "stack overflow"]>>

NoReturn(result) == Len(result) = 1 /\ "fatal" \in DOMAIN result[1]

\* When no interior point is off the chord, maxIdx is still the index of the
\* first point; if the split is taken all the same, the second recursive
\* call is SimplifyPath(points[0:], tolerance), the call being evaluated.
RECURSIVE SimplifyPath(_, _)
SimplifyPath(points, tolerance) ==
    IF Len(points) <= 2 THEN points
    ELSE LET m == FindMax(points, 2, Zero, 1)
         IN IF Exceeds(m.maxDist, tolerance)
            THEN IF m.maxIdx = 1 THEN StackOverflow
                 ELSE LET left == SimplifyPath(SubSeq(points, 1, m.maxIdx), tolerance)
                          right == SimplifyPath(SubSeq(points, m.maxIdx, Len(points)), tolerance)
                      IN IF NoReturn(left) THEN left
                         ELSE IF NoReturn(right) THEN right
                         ELSE Combine(left, right)
            ELSE <<points[1], points[Len(points)]>>

(***************************************************************************)
(* SpecSimplify: SimplifyPath is called on one path with two tolerances,   *)
(* the smaller first.  The points lie on a grid of 2 x 3 degrees; the      *)
(* i-th point has timestamp i.                                             *)
(***************************************************************************)
GridLats == 0..2
GridLons == 0..1
Tolerances == 0..2

GridPaths ==
    UNION { { [i \in 1..n |-> [Lat |-> la[i], Lon |-> lo[i], Timestamp |-> i]] :
                 la \in [1..n -> GridLats], lo \in [1..n -> GridLons] } : n \in 0..MaxLen }

IdleBackfill ==
    /\ db = <<>> /\ jobs = <<>> /\ ctxDone = {} /\ workers = <<>> /\ calls = <<>>
    /\ ret = NoRet /\ events = 0 /\ up = TRUE
    /\ IdleStreams

InitSimplify ==
    /\ IdleBackfill /\ IdleStore
    /\ gIn \in GridPaths
    /\ gParam \in { <<t1, t2>> : t1 \in Tolerances, t2 \in Tolerances }
    /\ gParam[1] <= gParam[2]
    /\ gOut = <<>>
    /\ gPc = "input"

CallSimplifyPath ==
    /\ Len(gOut) < Len(gParam)
    /\ gOut' = Append(gOut, SimplifyPath(gIn, Degrees(gParam[Len(gOut) + 1])))
    /\ gPc' = IF Len(gOut') = Len(gParam) THEN "done" ELSE "input"
    /\ UNCHANGED <<gIn, gParam, bmVars, storeVars>>

NextSimplify == CallSimplifyPath

SpecSimplify == InitSimplify /\ [][NextSimplify]_vars

(***************************************************************************)
(* Distances on the ground.  The paths of the two specifications below run *)
(* along one meridian in whole degrees, at most 6 degrees long; there the  *)
(* haversine distance is 6371000 * pi / 180 metres per degree, which is    *)
(* MetersPerDegree times the degrees when rounded to the metre: less than  *)
(* half a metre above the distance.  The thresholds the specifications     *)
(* compare it with are whole metres none of which lies within a metre of a *)
(* distance other than 0, so that every comparison comes out as it does in *)
(* the program.                                                            *)
(***************************************************************************)
MetersPerDegree == 111195

\* haversineMeters for lon1 = lon2, to the nearest metre.
haversineMeters(lat1, lon1, lat2, lon2) == MetersPerDegree * Abs(lat2 - lat1)

NewCluster(pt) ==
    [Lat |-> pt.Lat, Lon |-> pt.Lon, StartTS |-> pt.Timestamp, EndTS |-> pt.Timestamp,
     PointCount |-> 1]

Representative(cluster) ==
    [Lat |-> cluster.Lat, Lon |-> cluster.Lon, Timestamp |-> cluster.StartTS]

\* The cluster follows the point it takes in.
Absorb_MoveAnchor(cluster, pt) ==
    [cluster EXCEPT !.Lat = pt.Lat, !.Lon = pt.Lon, !.EndTS = pt.Timestamp, !.PointCount = @ + 1]

\* A point within the threshold joins the current cluster.
Absorb(cluster, pt) == [cluster EXCEPT !.EndTS = pt.Timestamp, !.PointCount = @ + 1]

\* PruneStationaryPoints' loop from index i on (1-based), then the last
\* cluster is closed.
RECURSIVE PruneLoop(_, _, _, _, _, _, _)
PruneLoop(points, minDistMeters, i, cluster, result, removed, clusters) ==
    IF i > Len(points)
    THEN [Points |-> Append(result, Representative(cluster)),
          Removed |-> removed,
          Clusters |-> Append(clusters, cluster)]
    ELSE LET pt == points[i]
             dist == haversineMeters(cluster.Lat, cluster.Lon, pt.Lat, pt.Lon)
         IN IF dist < minDistMeters
            THEN PruneLoop(points, minDistMeters, i + 1, Absorb(cluster, pt),
                           result, Append(removed, pt), clusters)
            ELSE PruneLoop(points, minDistMeters, i + 1, NewCluster(pt),
                           Append(result, Representative(cluster)), removed,
                           Append(clusters, cluster))

\* nil slices are empty sequences.
PruneStationaryPoints(points, minDistMeters) ==
    IF Len(points) = 0
    THEN [Points |-> <<>>, Removed |-> <<>>, Clusters |-> <<>>]
    ELSE IF Len(points) = 1
    THEN [Points |-> points, Removed |-> <<>>, Clusters |-> <<NewCluster(points[1])>>]
    ELSE PruneLoop(points, minDistMeters, 2, NewCluster(points[1]), <<>>, <<>>, <<>>)

\* A and C are required to be far apart instead of close.
IsSpike_FarAC(distAB, distBC, distAC, thresholdMeters) ==
    distAB > thresholdMeters /\ distBC > thresholdMeters /\ distAC > thresholdMeters

\* The distance from B to C is not looked at.
IsSpike_NoBC(distAB, distBC, distAC, thresholdMeters) ==
    distAB > thresholdMeters /\ distAC < thresholdMeters

\* B is a spike if it is far from both A and C, but A and C are close.
IsSpike(distAB, distBC, distAC, thresholdMeters) ==
    distAB > thresholdMeters /\ distBC > thresholdMeters /\ distAC < thresholdMeters

\* RemoveSpikes' loop from index i on (1-based), then the last point is kept.
RECURSIVE SpikeLoop(_, _, _, _, _)
SpikeLoop(points, thresholdMeters, i, kept, removed) ==
    IF ~(i < Len(points))
    THEN [Points |-> Append(kept, points[Len(points)]), Removed |-> removed]
    ELSE LET A == kept[Len(kept)]
             B == points[i]
             C == points[i + 1]
             distAB == haversineMeters(A.Lat, A.Lon, B.Lat, B.Lon)
             distBC == haversineMeters(B.Lat, B.Lon, C.Lat, C.Lon)
             distAC == haversineMeters(A.Lat, A.Lon, C.Lat, C.Lon)
         IN IF IsSpike(distAB, distBC, distAC, thresholdMeters)
            THEN SpikeLoop(points, thresholdMeters, i + 1, kept, Append(removed, B))
            ELSE SpikeLoop(points, thresholdMeters, i + 1, Append(kept, B), removed)

RemoveSpikes(points, thresholdMeters) ==
    IF Len(points) < 3
    THEN [Points |-> points, Removed |-> <<>>]
    ELSE SpikeLoop(points, thresholdMeters, 2, <<points[1]>>, <<>>)

(***************************************************************************)
(* SpecPrune and SpecSpikes: one call on a path along the meridian 0, the  *)
(* i-th point with timestamp i, with a threshold in metres that lies       *)
(* between the distances the points can have, or is 0.                     *)
(***************************************************************************)
MeridianLats == 0..3
Thresholds == {0, 100000, 200000, 300000}

MeridianPaths ==
    UNION { { [i \in 1..n |-> [Lat |-> la[i], Lon |-> 0, Timestamp |-> i]] :
                 la \in [1..n -> MeridianLats] } : n \in 0..MaxLen }

InitMeridian ==
    /\ IdleBackfill /\ IdleStore
    /\ gIn \in MeridianPaths
    /\ gParam \in Thresholds
    /\ gOut = <<>>
    /\ gPc = "input"

CallPruneStationaryPoints ==
    /\ gPc = "input"
    /\ gOut' = PruneStationaryPoints(gIn, gParam)
    /\ gPc' = "done"
    /\ UNCHANGED <<gIn, gParam, bmVars, storeVars>>

NextPrune == CallPruneStationaryPoints

SpecPrune == InitMeridian /\ [][NextPrune]_vars

CallRemoveSpikes ==
    /\ gPc = "input"
    /\ gOut' = RemoveSpikes(gIn, gParam)
    /\ gPc' = "done"
    /\ UNCHANGED <<gIn, gParam, bmVars, storeVars>>

NextSpikes == CallRemoveSpikes

SpecSpikes == InitMeridian /\ [][NextSpikes]_vars

(***************************************************************************)
(* The path query (handleAPIPaths, QueryPathsWithPoints).  A bounding box  *)
(* is [SwLat, SwLng, NeLat, NeLng] in whole degrees.  An optional query    *)
(* parameter is <<>> when it is absent and <<v>> when it has the value v.  *)
(***************************************************************************)
MinTolerance == [n |-> 1, d |-> 100000]
MaxTolerance == [n |-> 1, d |-> 1000]

\* a < b for two fractions of a degree.
Less(a, b) == a.n * b.d < b.n * a.d

ToleranceFromBBox(bbox) ==
    LET latSpan == bbox.NeLat - bbox.SwLat
        lonSpan == bbox.NeLng - bbox.SwLng
        minSpan == IF lonSpan < latSpan THEN lonSpan ELSE latSpan
        tolerance == [n |-> minSpan, d |-> 1000]
    IN IF Less(tolerance, MinTolerance) THEN MinTolerance
       ELSE IF Less(MaxTolerance, tolerance) THEN MaxTolerance
       ELSE tolerance

(***************************************************************************)
(* SpecFilters: each of the three filters is called once on a path of the  *)
(* grid with a parameter the program can pass it (QueryPathsWithPoints     *)
(* lines 538-568, handleAPITimeline): SimplifyPath the tolerance of a      *)
(* viewport, PruneStationaryPoints and RemoveSpikes a threshold above      *)
(* zero.  The two filters that measure ground distance are called on the   *)
(* paths that stay on the meridian 0.                                      *)
(***************************************************************************)
\* Viewports without extent, of one degree and of three: their tolerances
\* are the least and the greatest ToleranceFromBBox returns.
FilterViewports ==
    { [SwLat |-> 0, SwLng |-> 0, NeLat |-> span, NeLng |-> 3] : span \in {0, 1, 3} }

\* Thresholds above zero: the 50 metres of the timeline handler, and query
\* parameters below, between and above the distances of the grid's points.
FilterMeters == {1, 50, 100000, 150000, 300000}

OnMeridian(points) == \A i \in 1..Len(points) : points[i].Lon = 0

InitFilters ==
    /\ IdleBackfill /\ IdleStore
    /\ gIn \in GridPaths
    /\ gParam \in [bbox : FilterViewports, meters : FilterMeters]
    /\ gOut = <<>>
    /\ gPc = "input"

FilterSimplifyPath ==
    /\ gPc = "input"
    /\ gOut' = [op |-> "SimplifyPath",
                Points |-> SimplifyPath(gIn, ToleranceFromBBox(gParam.bbox))]
    /\ gPc' = "done"
    /\ UNCHANGED <<gIn, gParam, bmVars, storeVars>>

FilterPruneStationaryPoints ==
    /\ gPc = "input" /\ OnMeridian(gIn)
    /\ gOut' = [op |-> "PruneStationaryPoints",
                Points |-> PruneStationaryPoints(gIn, gParam.meters).Points]
    /\ gPc' = "done"
    /\ UNCHANGED <<gIn, gParam, bmVars, storeVars>>

FilterRemoveSpikes ==
    /\ gPc = "input" /\ OnMeridian(gIn)
    /\ gOut' = [op |-> "RemoveSpikes", Points |-> RemoveSpikes(gIn, gParam.meters).Points]
    /\ gPc' = "done"
    /\ UNCHANGED <<gIn, gParam, bmVars, storeVars>>

NextFilters ==
    \/ FilterSimplifyPath
    \/ FilterPruneStationaryPoints
    \/ FilterRemoveSpikes

SpecFilters == InitFilters /\ [][NextFilters]_vars

\* ORDER BY start_ts: the sequences the rows can come in.  The statement
\* does not fix the order of rows of equal start_ts.
OrderByStart(set) ==
    { s \in [1..Cardinality(set) -> set] :
         \A i, j \in DOMAIN s : i < j => s[i] # s[j] /\ s[i].StartTS <= s[j].StartTS }

\* DB.QueryPathsByBBox: the rows of the paths whose envelope meets the box
\* and whose time span meets the range, without their points; the results
\* the query can have.
QueryPathsByBBox(index, bbox, start, end) ==
    OrderByStart({ [p EXCEPT !.Points = <<>>] : p \in
        { q \in index :
            /\ q.MaxLat >= bbox.SwLat /\ q.MinLat <= bbox.NeLat
            /\ q.MaxLon >= bbox.SwLng /\ q.MinLon <= bbox.NeLng
            /\ (start # <<>> => q.EndTS >= start[1])
            /\ (end # <<>> => q.StartTS <= end[1]) } })

\* DB.GetPathPoints: the rows of path_points with the path id, in seq order.
GetPathPoints(index, pathID) ==
    LET rows == { p \in index : p.ID = pathID }
    IN IF rows = {} THEN <<>> ELSE (CHOOSE p \in rows : TRUE).Points

DefaultOrder == <<"stationary", "spikes">>

RECURSIVE ApplyStages(_, _, _)
\* Stationary pruning, then spike removal, whatever the order asked for.
ApplyStages_DefaultOrder(acc, opts, i) ==
    LET pruned == IF opts.PruneMeters > 0
                  THEN PruneStationaryPoints(acc.Points, opts.PruneMeters)
                  ELSE [Points |-> acc.Points, Removed |-> <<>>]
        despiked == IF opts.SpikeMeters > 0
                    THEN RemoveSpikes(pruned.Points, opts.SpikeMeters)
                    ELSE [Points |-> pruned.Points, Removed |-> <<>>]
    IN [Points |-> despiked.Points,
        Stationary |-> acc.Stationary \o pruned.Removed,
        Spikes |-> acc.Spikes \o despiked.Removed]

\* QueryPathsWithPoints' loop over opts.Order from stage i on: acc holds the
\* points so far and the removed points of all the paths so far.
ApplyStages(acc, opts, i) ==
    IF i > Len(opts.Order) THEN acc
    ELSE IF opts.Order[i] = "stationary" /\ opts.PruneMeters > 0
    THEN LET result == PruneStationaryPoints(acc.Points, opts.PruneMeters)
         IN ApplyStages([acc EXCEPT !.Points = result.Points,
                                    !.Stationary = @ \o result.Removed], opts, i + 1)
    ELSE IF opts.Order[i] = "spikes" /\ opts.SpikeMeters > 0
    THEN LET result == RemoveSpikes(acc.Points, opts.SpikeMeters)
         IN ApplyStages([acc EXCEPT !.Points = result.Points,
                                    !.Spikes = @ \o result.Removed], opts, i + 1)
    ELSE ApplyStages(acc, opts, i + 1)

\* One pass of QueryPathsWithPoints' loop over the paths (lines 543-570),
\* for path i of those found: result holds the paths and the removed points
\* of the passes before.
SimplifyPaths(result, index, tolerance, opts, i) ==
    LET staged == ApplyStages([Points |-> GetPathPoints(index, result.Paths[i].ID),
                               Stationary |-> result.Removed.Stationary,
                               Spikes |-> result.Removed.Spikes], opts, 1)
    IN [Paths |-> [result.Paths EXCEPT ![i].Points = SimplifyPath(staged.Points, tolerance)],
        Removed |-> [Stationary |-> staged.Stationary, Spikes |-> staged.Spikes]]

\* handleAPIPaths: a threshold that is absent or negative stays 0; an order
\* that is absent stays the default.
ParseOptions(req) ==
    [PruneMeters |-> IF req.prune # <<>> /\ req.prune[1] >= 0 THEN req.prune[1] ELSE 0,
     SpikeMeters |-> IF req.spikes # <<>> /\ req.spikes[1] >= 0 THEN req.spikes[1] ELSE 0,
     Order |-> IF req.order # <<>> THEN req.order ELSE DefaultOrder]

\* DB.LatestLocation, then the test against the time range: <<>> is nil.
CurrentLocation(table, start, end) ==
    IF table = {} THEN <<>>
    ELSE LET rows == OrderByTimestamp(table)
             loc == rows[Len(rows)]
         IN IF \/ start # <<>> /\ loc.Timestamp < start[1]
               \/ end # <<>> /\ loc.Timestamp > end[1]
            THEN <<>>
            ELSE <<PointOf(loc)>>

(***************************************************************************)
(* SpecPaths: one path query, statement by statement, over a store that    *)
(* no request writes meanwhile.  The store holds a path of user u1 along   *)
(* the meridian 0 between the equator and 3 degrees north, the i-th point  *)
(* with timestamp i, and a path of user u2 further north and later.  The   *)
(* query asks for one of three viewports, with or without an end time,     *)
(* with thresholds that are absent, zero, negative or between the          *)
(* distances the points can have, and with an order that is absent or      *)
(* names stages, known or not, once or twice.                              *)
(***************************************************************************)
NorthLocations ==
    { [Timestamp |-> 10 + i, UserID |-> "u2", DeviceID |-> Devices[2], Lat |-> 5 + i,
       Lon |-> 0] : i \in 0..1 }

LocationsOf(points) ==
    { [Timestamp |-> points[i].Timestamp, UserID |-> "u1", DeviceID |-> Devices[1],
       Lat |-> points[i].Lat, Lon |-> points[i].Lon] : i \in 1..Len(points) }

Viewports ==
    { [SwLat |-> -1, SwLng |-> -1, NeLat |-> 7, NeLng |-> 1],
      [SwLat |-> 0, SwLng |-> 0, NeLat |-> 3, NeLng |-> 0],
      [SwLat |-> 4, SwLng |-> -1, NeLat |-> 5, NeLng |-> 1] }

PathRequests ==
    [bbox : Viewports,
     start : {<<>>},
     end : {<<>>, <<5>>},
     prune : {<<>>, <<-1>>, <<150000>>},
     spikes : {<<0>>, <<150000>>},
     order : {<<>>, <<"stationary">>, <<"spikes", "stationary">>,
              <<"spikes", "heading", "spikes">>}]

InitPaths ==
    /\ IdleBackfill
    /\ gIn \in MeridianPaths
    /\ locations = LocationsOf(gIn) \cup NorthLocations
    /\ paths \in StoreAll({}, RebuildAllPaths(locations))
    /\ lastIngest = NoIngest
    /\ ops = <<>>
    /\ gParam \in PathRequests
    /\ gOut = <<>>
    /\ gPc = "input"

\* handleAPIPaths calls QueryPathsWithPoints, whose first statement is
\* QueryPathsByBBox (paths.go line 532).
handleAPIPaths ==
    /\ gPc = "input"
    /\ \E found \in QueryPathsByBBox(paths, gParam.bbox, gParam.start, gParam.end) :
          /\ gOut' = [Paths |-> found, next |-> 1,
                      Removed |-> [Stationary |-> <<>>, Spikes |-> <<>>]]
          /\ gPc' = IF found = <<>> THEN "current" ELSE "points"
    /\ UNCHANGED <<gIn, gParam, bmVars, storeVars>>

\* QueryPathsWithPoints lines 543-570: the points of the next path are read
\* and go through the stages and SimplifyPath.
handleAPIPathsPoints ==
    /\ gPc = "points"
    /\ LET result == SimplifyPaths(gOut, paths, ToleranceFromBBox(gParam.bbox),
                                   ParseOptions(gParam), gOut.next)
       IN gOut' = [Paths |-> result.Paths, next |-> gOut.next + 1,
                   Removed |-> result.Removed]
    /\ gPc' = IF gOut.next = Len(gOut.Paths) THEN "current" ELSE "points"
    /\ UNCHANGED <<gIn, gParam, bmVars, storeVars>>

\* handleAPIPaths from LatestLocation on: the response.
handleAPIPathsCurrent ==
    /\ gPc = "current"
    /\ gOut' = [Paths |-> gOut.Paths,
                Current |-> CurrentLocation(locations, gParam.start, gParam.end),
                Removed |-> gOut.Removed]
    /\ gPc' = "done"
    /\ UNCHANGED <<gIn, gParam, bmVars, storeVars>>

NextPaths ==
    \/ handleAPIPaths
    \/ handleAPIPathsPoints
    \/ handleAPIPathsCurrent

SpecPaths == InitPaths /\ [][NextPaths]_vars

(***************************************************************************)
(* The timeline builder (handleAPITimeline): the stationary clusters of a  *)
(* day are merged left to right.  The clusters lie on the meridian 0; a    *)
(* latitude is kept as the fraction n / d of metres of arc north of the    *)
(* equator, so that the weighted average and the distance are exact.       *)
(***************************************************************************)
MaxClusters == 3

mergeDistanceMeters == 500
mergeMaxGapSeconds == 1800

Frac(n, d) == [n |-> n, d |-> d]

\* haversineMeters between two latitudes of one meridian, as a fraction.
ArcMeters(lat1, lat2) == Frac(Abs(lat1.n * lat2.d - lat2.n * lat1.d), lat1.d * lat2.d)

\* (a * na + b * nb) / (na + nb)
WeightedAverage(a, na, b, nb) ==
    Frac(a.n * na * b.d + b.n * nb * a.d, a.d * b.d * (na + nb))

\* The two tests are joined by "or".
ShouldMerge_Either(dist, gap) ==
    dist.n <= mergeDistanceMeters * dist.d \/ gap <= mergeMaxGapSeconds

\* dist <= mergeDistanceMeters && gap <= mergeMaxGapSeconds
ShouldMerge(dist, gap) ==
    dist.n <= mergeDistanceMeters * dist.d /\ gap <= mergeMaxGapSeconds

\* The merge extends the previous cluster and moves its centroid.
MergeInto(last, cluster) ==
    LET totalPoints == last.PointCount + cluster.PointCount
    IN [last EXCEPT
          !.CentroidLat = WeightedAverage(last.CentroidLat, last.PointCount,
                                          cluster.CentroidLat, cluster.PointCount),
          !.CentroidLon = WeightedAverage(last.CentroidLon, last.PointCount,
                                          cluster.CentroidLon, cluster.PointCount),
          !.EndTS = cluster.EndTS,
          !.PointCount = totalPoints]

\* The merge loop from cluster i on.
RECURSIVE MergeClusters(_, _, _)
MergeClusters(clusters, i, mergedClusters) ==
    IF i > Len(clusters) THEN mergedClusters
    ELSE IF Len(mergedClusters) = 0
    THEN MergeClusters(clusters, i + 1, Append(mergedClusters, clusters[i]))
    ELSE LET last == mergedClusters[Len(mergedClusters)]
             dist == ArcMeters(last.CentroidLat, clusters[i].CentroidLat)
             gap == clusters[i].StartTS - last.EndTS
         IN IF ShouldMerge(dist, gap)
            THEN MergeClusters(clusters, i + 1,
                               [mergedClusters EXCEPT ![Len(mergedClusters)] =
                                                          MergeInto(last, clusters[i])])
            ELSE MergeClusters(clusters, i + 1, Append(mergedClusters, clusters[i]))

(***************************************************************************)
(* SpecTimeline: the merge runs on up to MaxClusters clusters, as the      *)
(* pruning of a day's points yields them: consecutive clusters differ in   *)
(* position, a cluster of one point lasts no time and a cluster of two     *)
(* lasts ten minutes, and the next cluster starts 10 minutes, 30 minutes   *)
(* or 30 minutes and a second after the end of the one before.             *)
(***************************************************************************)
ClusterNorthings == {0, 200, 640, 2000}
ClusterCounts == {1, 2}
ClusterGaps == {600, 1800, 1801}

RECURSIVE ClusterStartTS(_, _, _)
ClusterStartTS(counts, gaps, i) ==
    IF i = 1 THEN 0
    ELSE ClusterStartTS(counts, gaps, i - 1)
            + (IF counts[i - 1] = 1 THEN 0 ELSE 600) + gaps[i]

ClusterSeq(northings, counts, gaps) ==
    [i \in DOMAIN northings |->
        [CentroidLat |-> Frac(northings[i], 1), CentroidLon |-> Frac(0, 1),
         StartTS |-> ClusterStartTS(counts, gaps, i),
         EndTS |-> ClusterStartTS(counts, gaps, i) + (IF counts[i] = 1 THEN 0 ELSE 600),
         PointCount |-> counts[i]]]

InitTimeline ==
    /\ IdleBackfill /\ IdleStore
    /\ \E n \in 0..MaxClusters :
          \E northings \in [1..n -> ClusterNorthings], counts \in [1..n -> ClusterCounts],
             gaps \in [1..n -> ClusterGaps] :
             /\ \A i \in 2..n : northings[i] # northings[i - 1]
             /\ n >= 1 => gaps[1] = 600
             /\ gIn = ClusterSeq(northings, counts, gaps)
    /\ gParam = 0
    /\ gOut = <<>>
    /\ gPc = "input"

CallMergeClusters ==
    /\ gPc = "input"
    /\ gOut' = MergeClusters(gIn, 1, <<>>)
    /\ gPc' = "done"
    /\ UNCHANGED <<gIn, gParam, bmVars, storeVars>>

NextTimeline == CallMergeClusters

SpecTimeline == InitTimeline /\ [][NextTimeline]_vars

(***************************************************************************)
(* The timeline's entries (handleAPITimeline, after the merge): the merged *)
(* clusters that last long enough are the stops, and a travel entry joins  *)
(* two stops that are far enough apart in time.  A raw point is [Lat, Lon, *)
(* Timestamp] with Lat a fraction of metres north, as for the clusters.    *)
(***************************************************************************)
minStopDuration == 600
minTravelSeconds == 60

AddFrac(a, b) == Frac(a.n * b.d + b.n * a.d, a.d * b.d)

\* The filter loop from cluster i on.
RECURSIVE FilterStops(_, _, _)
FilterStops(mergedClusters, i, stops) ==
    IF i > Len(mergedClusters) THEN stops
    ELSE LET duration == mergedClusters[i].EndTS - mergedClusters[i].StartTS
         IN FilterStops(mergedClusters, i + 1,
                        IF duration >= minStopDuration
                        THEN Append(stops, mergedClusters[i])
                        ELSE stops)

\* The loop over the raw points from point j on: the distances between the
\* consecutive points with travelStart <= Timestamp <= travelEnd are added;
\* lastPt is <<>> for nil.
RECURSIVE TravelLoop(_, _, _, _, _, _)
TravelLoop(points, travelStart, travelEnd, j, distance, lastPt) ==
    IF j > Len(points) THEN distance
    ELSE LET pt == points[j]
         IN IF pt.Timestamp >= travelStart /\ pt.Timestamp <= travelEnd
            THEN TravelLoop(points, travelStart, travelEnd, j + 1,
                            IF lastPt # <<>>
                            THEN AddFrac(distance, ArcMeters(lastPt[1].Lat, pt.Lat))
                            ELSE distance,
                            <<pt>>)
            ELSE TravelLoop(points, travelStart, travelEnd, j + 1, distance, lastPt)

\* The distance from the first point of the gap straight to the last.
TravelDistance_StraightLine(points, travelStart, travelEnd) ==
    LET inside == SelectSeq(points, LAMBDA pt : /\ pt.Timestamp >= travelStart
                                                /\ pt.Timestamp <= travelEnd)
    IN IF Len(inside) = 0 THEN Frac(0, 1)
       ELSE ArcMeters(inside[1].Lat, inside[Len(inside)].Lat)

TravelDistance(points, travelStart, travelEnd) ==
    TravelLoop(points, travelStart, travelEnd, 1, Frac(0, 1), <<>>)

TravelEntry(prevStop, stop, points) ==
    [EntryType |-> "travel",
     Timestamp |-> prevStop.EndTS, EndTimestamp |-> stop.StartTS,
     Lat |-> prevStop.CentroidLat, Lon |-> prevStop.CentroidLon,
     EndLat |-> stop.CentroidLat, EndLon |-> stop.CentroidLon,
     Duration |-> stop.StartTS - prevStop.EndTS,
     DistanceMeters |-> TravelDistance(points, prevStop.EndTS, stop.StartTS)]

StopEntry(stop) ==
    [EntryType |-> "stop",
     Timestamp |-> stop.StartTS, EndTimestamp |-> stop.EndTS,
     Lat |-> stop.CentroidLat, Lon |-> stop.CentroidLon,
     Duration |-> stop.EndTS - stop.StartTS]

\* The loop over the stops from stop i on.
RECURSIVE BuildEntries(_, _, _, _)
BuildEntries(stops, points, i, entries) ==
    IF i > Len(stops) THEN entries
    ELSE LET withTravel ==
                 IF i > 1 /\ stops[i].StartTS - stops[i - 1].EndTS > minTravelSeconds
                 THEN Append(entries, TravelEntry(stops[i - 1], stops[i], points))
                 ELSE entries
         IN BuildEntries(stops, points, i + 1, Append(withTravel, StopEntry(stops[i])))

(***************************************************************************)
(* SpecEntries: the timeline of a day without photos and without a         *)
(* geocoder.  The day's raw points are those of up to MaxClusters          *)
(* clusters as in SpecTimeline: one point where a cluster starts and, for  *)
(* a cluster of two, one at the same place where it ends.  The next        *)
(* cluster starts 60 seconds, 61 seconds, 10 minutes or 30 minutes and a   *)
(* second after the one before.                                            *)
(***************************************************************************)
EntryGaps == {60, 61, 600, 1801}

RECURSIVE RawPoints(_, _)
RawPoints(clusters, i) ==
    IF i > Len(clusters) THEN <<>>
    ELSE LET c == clusters[i]
             first == [Lat |-> c.CentroidLat, Lon |-> c.CentroidLon, Timestamp |-> c.StartTS]
             last == [Lat |-> c.CentroidLat, Lon |-> c.CentroidLon, Timestamp |-> c.EndTS]
         IN (IF c.PointCount = 1 THEN <<first>> ELSE <<first, last>>)
               \o RawPoints(clusters, i + 1)

InitEntries ==
    /\ IdleBackfill /\ IdleStore
    /\ \E n \in 0..MaxClusters :
          \E northings \in [1..n -> ClusterNorthings], counts \in [1..n -> ClusterCounts],
             gaps \in [1..n -> EntryGaps] :
             /\ \A i \in 2..n : northings[i] # northings[i - 1]
             /\ n >= 1 => gaps[1] = 600
             /\ gIn = ClusterSeq(northings, counts, gaps)
    /\ gParam = RawPoints(gIn, 1)
    /\ gOut = <<>>
    /\ gPc = "input"

\* handleAPITimeline from the pruning's clusters on.
handleAPITimeline ==
    /\ gPc = "input"
    /\ gOut' = IF Len(gParam) = 0
               THEN [Entries |-> <<>>]
               ELSE [Entries |-> BuildEntries(FilterStops(MergeClusters(gIn, 1, <<>>), 1, <<>>),
                                              gParam, 1, <<>>)]
    /\ gPc' = "done"
    /\ UNCHANGED <<gIn, gParam, bmVars, storeVars>>

NextEntries == handleAPITimeline

SpecEntries == InitEntries /\ [][NextEntries]_vars

(***************************************************************************)
(* Claims about the job manager.                                           *)
(***************************************************************************)
Counters(job) == <<job.processed, job.imported, job.skipped, job.errors, job.lastPage>>

\* C1: the persisted status of a job changes only along the edges of the job
\* state machine: a job is created as running; running -> completed, failed
\* or cancelled; running -> interrupted only at manager startup; interrupted
\* -> running and failed -> running only through ResumeImport; the status of
\* a completed or cancelled job never changes again.
C1_StatusEdges ==
    [][ /\ Len(db') >= Len(db)
        /\ \A j \in (Len(db) + 1)..Len(db') : db'[j].status = "running"
        /\ \A j \in 1..Len(db) :
              db'[j].status # db[j].status =>
                 \/ /\ db[j].status = "running"
                    /\ db'[j].status \in {"completed", "failed", "cancelled"}
                 \/ /\ db[j].status = "running" /\ db'[j].status = "interrupted"
                    /\ Restart
                 \/ /\ db[j].status \in {"interrupted", "failed"} /\ db'[j].status = "running"
                    /\ \E c \in DOMAIN calls : ResumeImportUpdate(c, FALSE) /\ calls[c].jobID = j
      ]_vars

\* C2: once NewBackfillManager has returned, no job that was running when the
\* previous process died is still running, and no worker has been launched.
C2_StartupInterruptsAll ==
    up => /\ \A j \in 1..Len(db) : db[j].status # "running"
          /\ workers = <<>> /\ jobs = <<>>

\* C3: ResumeImport goes on to relaunch a job only when the status it read is
\* interrupted or failed.  For an unknown id it returns ErrJobNotFound and for
\* any other status ErrJobNotResumable, and in both cases the job rows, the
\* registry and the workers are unchanged and the call is over.  A call
\* whose read or write of the row fails returns the error, and launches no
\* worker and registers no handle either.
C3_ResumeRejects ==
    [][ /\ \A jobID \in 1..(Len(db) + 1) :
              LET job == GetImportJob(db, jobID)
                  rejected == UNCHANGED <<db, jobs, ctxDone, workers, calls>>
              IN /\ ResumeImportGet(jobID, FALSE) =>
                    /\ job = NoJob =>
                          rejected /\ ret' = Returned("ResumeImport", jobID, "ErrJobNotFound")
                    /\ (job # NoJob /\ job.status \notin {"interrupted", "failed"}) =>
                          rejected /\ ret' = Returned("ResumeImport", jobID, "ErrJobNotResumable")
                    /\ (job # NoJob /\ job.status \in {"interrupted", "failed"}) =>
                          Len(calls') = Len(calls) + 1
                 /\ ResumeImportGet(jobID, TRUE) =>
                          rejected /\ ret' = Returned("ResumeImport", jobID, DBError)
        /\ \A c \in DOMAIN calls :
              /\ ResumeImportLaunch(c) => calls[c].seen \in {"interrupted", "failed"}
              /\ ResumeImportUpdate(c, TRUE) =>
                    /\ UNCHANGED <<db, jobs, ctxDone, workers>>
                    /\ ret' = Returned("ResumeImport", calls[c].jobID, DBError)
      ]_vars

\* A resume of a completed job has just been rejected.
C3_Witness ==
    /\ ret = Returned("ResumeImport", 1, "ErrJobNotResumable")
    /\ Len(db) = 1 /\ db[1].status = "completed"
    /\ workers = <<>> /\ jobs = <<>>

\* C4: a worker launched by ResumeImport fetches as its first page the
\* last_page of the row ResumeImport read plus one, then one page after the
\* other, with the configuration saved in the job row when it was created.
C4_ResumeFromCheckpoint ==
    \A w \in DOMAIN workers :
        workers[w].resumed =>
            /\ workers[w].fetched # <<>> =>
                  workers[w].fetched[1] = workers[w].resumedFrom + 1
            /\ \A i \in 2..Len(workers[w].fetched) :
                  workers[w].fetched[i] = workers[w].fetched[i - 1] + 1
            /\ workers[w].config = jsonUnmarshal(db[workers[w].jobID].configJSON)

\* A job interrupted after its first checkpoint has been resumed, and its
\* worker has asked for page 2.
C4_Witness ==
    \E w \in DOMAIN workers :
        /\ workers[w].resumed /\ workers[w].resumedFrom = 1
        /\ workers[w].fetched # <<>> /\ workers[w].fetched[1] = 2

\* C5: once a CancelImport that found the handle has returned and the worker
\* has exited, the job is persisted as cancelled; and no write of the worker
\* after the cancellation changes the persisted counters or last_page.
C5_CancelledAndFrozen ==
    [][ \A w \in DOMAIN workers :
          LET j == workers[w].jobID
              cancelling == \E c \in DOMAIN calls :
                               calls[c].op = "CancelImport" /\ calls[c].jobID = j
          IN w \in ctxDone =>
                /\ (WorkerExit(w) /\ ~cancelling) => db'[j].status = "cancelled"
                /\ (\E err \in BOOLEAN : \/ WorkerLoop(w, err) \/ WorkerFetchErr(w, err)
                                          \/ WorkerCheckpoint(w, err) \/ WorkerComplete(w, err))
                      => Counters(db'[j]) = Counters(db[j])
      ]_vars

Terminal(status) == status \in {"completed", "failed", "cancelled"}

WorkersOf(jobID) == { w \in DOMAIN workers : workers[w].jobID = jobID }

\* The handle registered for the job is that of a live worker of the job, or
\* of the worker a StartImport or ResumeImport of the job has registered it
\* for and launches in its next step.
HandleInUse(jobID) ==
    \/ jobs[jobID] \in WorkersOf(jobID)
    \/ \E c \in DOMAIN calls : /\ calls[c].jobID = jobID /\ calls[c].pc = "launch"
                                /\ calls[c].ctx = jobs[jobID]

\* C16: a CancelImport that finds no handle for the job returns
\* ErrJobNotFound and leaves the job table, the registry and the contexts
\* as they are; one that finds the handle removes it, so that a second call
\* finds none; and a job has a handle only while the worker it belongs to
\* is alive or about to be launched by the call that registered it, so that
\* cancelling a job after its worker has gone changes nothing.
C16_CancelWithoutHandle ==
    /\ [][\A jobID \in 1..(Len(db) + 1) : CancelImportSignal(jobID) =>
            IF jobID \in DOMAIN jobs
            THEN jobID \notin DOMAIN jobs'
            ELSE /\ ret' = Returned("CancelImport", jobID, "ErrJobNotFound")
                 /\ db' = db /\ jobs' = jobs /\ ctxDone' = ctxDone
                 /\ calls' = calls /\ workers' = workers]_vars
    /\ [](\A jobID \in DOMAIN jobs : HandleInUse(jobID))

\* A second CancelImport has returned ErrJobNotFound for a job the first
\* one cancelled, and the job is still persisted as cancelled.
C16_Witness ==
    /\ ret = Returned("CancelImport", 1, "ErrJobNotFound")
    /\ Len(db) = 1 /\ db[1].status = "cancelled"
    /\ jobs = <<>> /\ workers = <<>> /\ calls = <<>>

\* C18: a job never has more than one live runImport goroutine.
C18_OneWorkerPerJob ==
    \A jobID \in DOMAIN db : Cardinality(WorkersOf(jobID)) <= 1

\* C19: while a worker that has not been cancelled is at work, its deferred
\* function not yet run, the registry maps its job id to that worker's own
\* handle; and a job has an entry only while the worker it belongs to is
\* alive or about to be launched by the call that registered it.
C19_WorkerHasItsHandle ==
    /\ \A w \in DOMAIN workers :
          (w \notin ctxDone /\ workers[w].pc \notin {"closeStreams", "close"}) =>
             /\ workers[w].jobID \in DOMAIN jobs
             /\ jobs[workers[w].jobID] = w
    /\ \A jobID \in DOMAIN jobs : HandleInUse(jobID)

\* C20: a worker whose context is cancelled while it fetches page p gets
\* the page all the same, processes every asset of it and writes its
\* checkpoint; a cancelled worker at the top of the loop fetches no further
\* page.
C20_CancelBetweenPages ==
    [][\A w \in DOMAIN workers :
          (w \in ctxDone /\ w \in DOMAIN workers') =>
             /\ (workers[w].pc = "fetching" /\ workers'[w].pc # "fetching")
                   => /\ workers'[w].pc = "asset"
                      /\ workers'[w].assets = AssetsOnPage(workers[w].page)
                      /\ workers'[w].i = 1
             /\ (workers[w].pc = "asset" /\ workers'[w] # workers[w])
                   => /\ workers'[w].job.processed = workers[w].job.processed + 1
                      /\ IF workers[w].i < Len(workers[w].assets)
                         THEN workers'[w].pc = "asset" /\ workers'[w].i = workers[w].i + 1
                         ELSE workers'[w].pc = "checkpoint"
             /\ (workers[w].pc = "checkpoint" /\ workers'[w].pc # "checkpoint")
                   => db'[workers[w].jobID].lastPage = workers[w].page
             /\ workers[w].pc = "loop" => workers'[w].fetched = workers[w].fetched
      ]_vars

\* C21: the persisted last_page of a job never decreases, and a step that
\* raises it is the checkpoint of a worker that has processed that page.
C21_LastPageMonotone ==
    [][\A jobID \in DOMAIN db :
          /\ db'[jobID].lastPage >= db[jobID].lastPage
          /\ db'[jobID].lastPage > db[jobID].lastPage =>
                \E w \in WorkersOf(jobID) :
                    /\ workers[w].pc = "checkpoint"
                    /\ db'[jobID].lastPage = workers[w].page
      ]_vars

\* A step in which worker w leaves the fetch of its page with an error.
FetchFails(w) ==
    /\ w \in DOMAIN workers /\ workers[w].pc = "fetching"
    /\ w \in DOMAIN workers' /\ workers'[w].pc \notin {"fetching", "asset", "checkpoint"}

\* C22: a worker whose fetch of page p fails persists its job as failed with
\* the error message and with last_page p - 1, calls broadcast with the
\* failure snapshot, and goes from there to its exit without asking for
\* another page; and no fetch begins for a job persisted as failed.
C22_FetchFailure ==
    [][\A w \in DOMAIN workers :
          LET jobID == workers[w].jobID IN
          /\ FetchFails(w) =>
                /\ db'[jobID].status = "failed"
                /\ db'[jobID].lastError # NoErr
                /\ db'[jobID].lastPage = workers[w].page - 1
                /\ workers'[w].fetched = workers[w].fetched
                /\ workers'[w].pc = "broadcast" /\ workers'[w].after = "defer"
                /\ workers'[w].progress = FailureOf(jobID, db'[jobID])
          /\ (w \in DOMAIN workers' /\ workers[w].job # NoJob
                 /\ workers[w].job.status = "failed")
                => workers'[w].fetched = workers[w].fetched
          /\ (w \in DOMAIN workers' /\ Len(workers'[w].fetched) > Len(workers[w].fetched))
                => db[jobID].status # "failed"
      ]_vars

Outcomes(job) == job.imported + job.skipped + job.errors

\* A step in which worker w processes an asset of its page.
AssetProcessed(w) ==
    /\ w \in DOMAIN workers /\ workers[w].pc = "asset"
    /\ w \in DOMAIN workers' /\ workers'[w] # workers[w]

\* C23: processing an asset adds one to processed, and one to exactly one of
\* imported (a new sample), skipped (a duplicate key) and errors (a failed
\* insert) when the asset has GPS and an allowed device, and to none of them
\* otherwise; whatever inserts fail, the worker goes on to the next asset
\* and after the last to the checkpoint of the page, whose write, unless it
\* fails itself, persists the page number and the errors counted; and
\* imported + skipped + errors <= processed in every worker's record and
\* persisted row.
C23_AssetCounters ==
    /\ [][\A w \in DOMAIN workers :
            /\ AssetProcessed(w) =>
                 LET old == workers[w].job
                     new == workers'[w].job
                     insertable == workers[w].i \in Insertable(workers[w].config,
                                                               workers[w].assets)
                 IN /\ new.processed = old.processed + 1
                    /\ Outcomes(new) = Outcomes(old) + (IF insertable THEN 1 ELSE 0)
                    /\ new.imported >= old.imported /\ new.skipped >= old.skipped
                    /\ new.errors >= old.errors
                    /\ new.errors - old.errors = events' - events
                    /\ new.imported - old.imported = Cardinality(locations') - Cardinality(locations)
                    /\ (insertable /\ new.errors = old.errors
                          /\ HasKey(locations, LocationOf(workers[w].config,
                                                          workers[w].assets[workers[w].i])))
                         => new.skipped = old.skipped + 1
                    /\ IF workers[w].i < Len(workers[w].assets)
                       THEN workers'[w].pc = "asset" /\ workers'[w].i = workers[w].i + 1
                       ELSE workers'[w].pc = "checkpoint"
            /\ WorkerCheckpoint(w, FALSE)
                 => /\ db'[workers[w].jobID].lastPage = workers[w].page
                    /\ db'[workers[w].jobID].errors = workers[w].job.errors
         ]_vars
    /\ [](/\ \A w \in DOMAIN workers :
               workers[w].job # NoJob => Outcomes(workers[w].job) <= workers[w].job.processed
          /\ \A jobID \in DOMAIN db : Outcomes(db[jobID]) <= db[jobID].processed)

\* An insert of page 1 has failed, and the page has been processed to its
\* end and checkpointed with the error counted.
C23_Witness ==
    \E jobID \in DOMAIN db :
        /\ db[jobID].errors = 1 /\ db[jobID].lastPage = 1
        /\ db[jobID].processed = Len(AssetsOnPage(1))
        /\ db[jobID].imported = 0 /\ db[jobID].skipped = 0

CallsOf(jobID) == { c \in DOMAIN calls : calls[c].jobID = jobID }

\* C24: every job eventually is persisted as completed, failed or cancelled
\* with no worker of it alive; and a job that has no live worker and no
\* request in progress is never persisted as running.
C24_JobsEnd ==
    /\ \A jobID \in 1..MaxJobs :
          [](jobID \in DOMAIN db =>
                <>(/\ jobID \in DOMAIN db
                   /\ Terminal(db[jobID].status) /\ WorkersOf(jobID) = {}))
    /\ [](\A jobID \in DOMAIN db :
             (WorkersOf(jobID) = {} /\ CallsOf(jobID) = {}) => db[jobID].status # "running")

(***************************************************************************)
(* Claims about the sample store.                                          *)
(***************************************************************************)
\* The samples of the batch whose key was stored before the request or came
\* earlier in the batch.
DuplicatesIn(before, batch) ==
    { i \in 1..Len(batch) :
         HasKey(before, batch[i]) \/ \E j \in 1..(i - 1) : SameKey(batch[j], batch[i]) }

CountOf(seq, v) == Cardinality({ i \in 1..Len(seq) : seq[i] = v })

\* C6: the store holds at most one sample per (timestamp, deviceId); once
\* a request has returned it has reported every sample whose key existed
\* as skipped and the others as inserted (inserted + skipped = batch size),
\* the samples stored before it are unchanged and the new ones are of its
\* batch; and no Path holds a point that is not a stored sample of its user
\* and date, or holds the point of a sample more often than it is stored.
C6_IdempotentIngestion ==
    /\ \A a, b \in locations : SameKey(a, b) => a = b
    /\ (ops = <<>> /\ lastIngest.op \notin {"none", "handleAPIPathsRebuild"}) =>
          /\ lastIngest.before \subseteq locations
          /\ \A r \in locations \ lastIngest.before :
                \E i \in 1..Len(lastIngest.batch) : lastIngest.batch[i] = r
          /\ \A i \in 1..Len(lastIngest.batch) : HasKey(locations, lastIngest.batch[i])
    /\ lastIngest.op \in {"handleImportTimeline", "InsertLocationWithSource"} =>
          /\ lastIngest.inserted + lastIngest.skipped = Len(lastIngest.batch)
          /\ lastIngest.skipped = Cardinality(DuplicatesIn(lastIngest.before, lastIngest.batch))
    /\ \A p \in paths :
          LET bucket == { r \in locations : PathKey(r) = <<p.UserID, p.Date>> }
          IN /\ p.PointCount = Len(p.Points)
             /\ \A i \in 1..Len(p.Points) :
                   /\ \E r \in bucket : PointOf(r) = p.Points[i]
                   /\ CountOf(p.Points, p.Points[i]) <=
                         Cardinality({ o \in bucket : PointOf(o) = p.Points[i] })
    /\ \A p, q \in paths : (p.UserID = q.UserID /\ p.Date = q.Date) => p = q

\* A batch of two samples with the same key, which differ in longitude and
\* so in local date, met a store that already held the key: both skipped,
\* the stored sample and its path as before.
C6_Witness ==
    /\ ops = <<>>
    /\ lastIngest.op = "handleImportTimeline"
    /\ Len(lastIngest.batch) = 2 /\ lastIngest.skipped = 2 /\ lastIngest.inserted = 0
    /\ lastIngest.batch[1] # lastIngest.batch[2]
    /\ \E r \in locations : SameKey(r, lastIngest.batch[1]) /\ r # lastIngest.batch[1]
    /\ paths # {}

(***************************************************************************)
(* Claims about path geometry.                                             *)
(***************************************************************************)
\* out keeps points of in, in their order, none twice: the i-th input point
\* has timestamp i.
IsSubsequence(out, in) ==
    /\ \A i \in 1..Len(out) :
          out[i].Timestamp \in 1..Len(in) /\ out[i] = in[out[i].Timestamp]
    /\ \A i \in 1..(Len(out) - 1) : out[i].Timestamp < out[i + 1].Timestamp

\* C7: for a tolerance >= 0, SimplifyPath returns a path of at most two
\* points unchanged, and otherwise a subsequence of the path (order kept, no
\* point invented or repeated) that begins with its first point and ends
\* with its last.
C7_SimplifySubsequence ==
    \A k \in 1..Len(gOut) :
        IF Len(gIn) <= 2 THEN gOut[k] = gIn
        ELSE /\ IsSubsequence(gOut[k], gIn)
             /\ Len(gOut[k]) >= 2
             /\ gOut[k][1] = gIn[1]
             /\ gOut[k][Len(gOut[k])] = gIn[Len(gIn)]

\* A path of four points was split twice and lost no point.
C7_Witness ==
    /\ Len(gIn) = 4 /\ Len(gOut) >= 1 /\ Len(gOut[1]) = 4

\* C8: for tolerances 0 <= t1 <= t2, SimplifyPath with t2 keeps no more
\* points than SimplifyPath with t1.
C8_SimplifyMonotone ==
    (Len(gOut) = 2 /\ gParam[1] <= gParam[2]) => Len(gOut[2]) <= Len(gOut[1])

\* The larger tolerance kept fewer points, yet more than the two ends.
C8_Witness ==
    /\ Len(gOut) = 2 /\ gParam[1] < gParam[2]
    /\ Len(gOut[2]) < Len(gOut[1]) /\ Len(gOut[2]) > 2

\* The index in the input of the first point of cluster k: the clusters
\* cover the input in order, cluster j taking PointCount points.
RECURSIVE ClusterStart(_, _)
ClusterStart(clusters, k) ==
    IF k = 1 THEN 1 ELSE ClusterStart(clusters, k - 1) + clusters[k - 1].PointCount

\* The points cluster k absorbed after its first, in order.
Absorbed(in, clusters, k) ==
    SubSeq(in, ClusterStart(clusters, k) + 1,
           ClusterStart(clusters, k) + clusters[k].PointCount - 1)

RECURSIVE AllAbsorbed(_, _, _)
AllAbsorbed(in, clusters, k) ==
    IF k > Len(clusters) THEN <<>>
    ELSE Absorbed(in, clusters, k) \o AllAbsorbed(in, clusters, k + 1)

\* C9: every removed point was absorbed by a cluster whose anchor, the first
\* point admitted to it, is within minDist of it and is the position and the
\* kept point the cluster reports; there are at most as many clusters as
\* points; one point gives one cluster of PointCount 1 and is the only kept
\* point; no point gives an empty result.
C9_PruneWithinAnchor ==
    gPc = "done" =>
        LET cl == gOut.Clusters IN
        /\ Len(cl) <= Len(gIn)
        /\ Len(gOut.Points) = Len(cl)
        /\ \A k \in 1..Len(cl) :
              LET anchor == gIn[ClusterStart(cl, k)]
                  taken == Absorbed(gIn, cl, k)
              IN /\ cl[k].PointCount >= 1
                 /\ ClusterStart(cl, k) + cl[k].PointCount - 1 <= Len(gIn)
                 /\ cl[k].Lat = anchor.Lat /\ cl[k].Lon = anchor.Lon
                 /\ gOut.Points[k] = anchor
                 /\ \A j \in 1..Len(taken) :
                       haversineMeters(anchor.Lat, anchor.Lon, taken[j].Lat, taken[j].Lon)
                          <= gParam
        /\ gOut.Removed = AllAbsorbed(gIn, cl, 1)
        /\ Len(gOut.Removed) + Len(gOut.Points) = Len(gIn)
        /\ Len(gIn) = 1 => /\ Len(cl) = 1 /\ cl[1].PointCount = 1
                           /\ gOut.Points = gIn /\ gOut.Removed = <<>>
        /\ Len(gIn) = 0 => gOut.Points = <<>> /\ gOut.Removed = <<>> /\ cl = <<>>

\* The third point is within minDist of the second, which the first cluster
\* absorbed, but not of the cluster's anchor: it opens a second cluster.
C9_Witness ==
    /\ gPc = "done" /\ gParam = 200000
    /\ Len(gIn) = 3 /\ gIn[1].Lat = 0 /\ gIn[2].Lat = 1 /\ gIn[3].Lat = 2
    /\ Len(gOut.Clusters) = 2 /\ gOut.Clusters[1].PointCount = 2
    /\ gOut.Removed = <<gIn[2]>>

\* Whether the i-th input point is among the kept points.
IsKept(i) == \E j \in 1..Len(gOut.Points) : gOut.Points[j] = gIn[i]

\* The last kept point before the i-th input point.
LastKeptBefore(i) ==
    gIn[CHOOSE j \in 1..(i - 1) : IsKept(j) /\ \A l \in (j + 1)..(i - 1) : ~IsKept(l)]

Dist(p, q) == haversineMeters(p.Lat, p.Lon, q.Lat, q.Lon)

\* C10 as stated: an interior point B, with A the last kept point before it
\* and C the next input point, is dropped exactly if dist(A,B) > threshold,
\* dist(B,C) > threshold and dist(A,C) <= threshold.
C10_SpikeAtMost ==
    gPc = "done" =>
        \A i \in 2..(Len(gIn) - 1) :
            LET A == LastKeptBefore(i)
            IN ~IsKept(i) <=> /\ Dist(A, gIn[i]) > gParam
                              /\ Dist(gIn[i], gIn[i + 1]) > gParam
                              /\ Dist(A, gIn[i + 1]) <= gParam

\* C10 amended: an interior point B, with A the last kept point before it and
\* C the next input point, is dropped exactly if dist(A,B) > threshold,
\* dist(B,C) > threshold and dist(A,C) < threshold; the first and the last
\* point are kept, and every point is either kept or removed, in order.
C10_SpikeStrict ==
    gPc = "done" =>
        /\ Len(gIn) >= 1 => IsKept(1) /\ IsKept(Len(gIn))
        /\ IsSubsequence(gOut.Points, gIn) /\ IsSubsequence(gOut.Removed, gIn)
        /\ Len(gOut.Points) + Len(gOut.Removed) = Len(gIn)
        /\ \A i \in 2..(Len(gIn) - 1) :
              LET A == LastKeptBefore(i)
              IN ~IsKept(i) <=> /\ Dist(A, gIn[i]) > gParam
                                /\ Dist(gIn[i], gIn[i + 1]) > gParam
                                /\ Dist(A, gIn[i + 1]) < gParam

\* B lies far from A and from C, dist(A,C) equals the threshold, and B is kept.
C10_Witness ==
    /\ gPc = "done"
    /\ Len(gIn) = 3 /\ Len(gOut.Points) = 3
    /\ Dist(gIn[1], gIn[2]) > gParam /\ Dist(gIn[2], gIn[3]) > gParam
    /\ Dist(gIn[1], gIn[3]) = gParam

\* C11: RemoveSpikes returns a path of fewer than 3 points unchanged with
\* nothing removed; it keeps the first and the last point; Points and
\* Removed are both in input order and together hold every input point
\* exactly once; and for three points A, B, C with B farther than the
\* threshold from A and from C, and A nearer than the threshold to C, it
\* returns Points = <<A, C>> and Removed = <<B>>.
C11_SpikesPartition ==
    gPc = "done" =>
        /\ Len(gIn) < 3 => gOut.Points = gIn /\ gOut.Removed = <<>>
        /\ Len(gIn) >= 1 => /\ gOut.Points[1] = gIn[1]
                            /\ gOut.Points[Len(gOut.Points)] = gIn[Len(gIn)]
        /\ IsSubsequence(gOut.Points, gIn) /\ IsSubsequence(gOut.Removed, gIn)
        /\ \A i \in 1..Len(gIn) :
              CountOf(gOut.Points, gIn[i]) + CountOf(gOut.Removed, gIn[i]) = 1
        /\ (/\ Len(gIn) = 3
            /\ Dist(gIn[1], gIn[2]) > gParam /\ Dist(gIn[2], gIn[3]) > gParam
            /\ Dist(gIn[1], gIn[3]) < gParam)
              => gOut.Points = <<gIn[1], gIn[3]>> /\ gOut.Removed = <<gIn[2]>>

\* B lies a degree away from A and from C, which coincide; with a threshold
\* of 100 km exactly B is removed.
C11_Witness ==
    /\ gPc = "done" /\ gParam = 100000
    /\ Len(gIn) = 3 /\ gIn[1].Lat = 0 /\ gIn[2].Lat = 1 /\ gIn[3].Lat = 0
    /\ gOut.Points = <<gIn[1], gIn[3]>> /\ gOut.Removed = <<gIn[2]>>

\* The input cluster that starts, and the one that ends, merged cluster k.
FirstOf(k) == CHOOSE i \in 1..Len(gIn) : gIn[i].StartTS = gOut[k].StartTS
LastOf(k) == CHOOSE i \in 1..Len(gIn) : gIn[i].EndTS = gOut[k].EndTS

RECURSIVE SumCounts(_, _)
SumCounts(a, b) == IF a > b THEN 0 ELSE gIn[a].PointCount + SumCounts(a + 1, b)

\* The sum of position times point count over the input clusters a..b, whose
\* positions are whole numbers.
RECURSIVE SumWeighted(_, _)
SumWeighted(a, b) ==
    IF a > b THEN 0 ELSE gIn[a].CentroidLat.n * gIn[a].PointCount + SumWeighted(a + 1, b)

\* The point-count-weighted average of the input clusters a..b.
MeanOf(a, b) == Frac(SumWeighted(a, b), SumCounts(a, b))

SameFrac(x, y) == x.n * y.d = y.n * x.d

\* Whether a cluster at position lat and start ts is near the stop at
\* position centroid that ended at endTS.
Near(centroid, endTS, lat, ts) ==
    /\ Abs(centroid.n * lat.d - lat.n * centroid.d) <= 500 * centroid.d * lat.d
    /\ ts - endTS <= 30 * 60

\* C12: the merged clusters cover the input clusters in order; an input
\* cluster joins the stop being built exactly if it is within 500 m of the
\* stop's position and starts at most 30 min after the stop's end, and
\* otherwise opens a new stop; a stop's position is the point-count-weighted
\* average of its clusters and its point count their sum.  Two clusters
\* 200 m apart with a 10-minute gap form one stop, and two clusters 2 km
\* apart never merge.
C12_MergeWithPredecessor ==
    gPc = "done" =>
        /\ Len(gIn) = 0 <=> Len(gOut) = 0
        /\ Len(gOut) > 0 => FirstOf(1) = 1 /\ LastOf(Len(gOut)) = Len(gIn)
        /\ \A k \in 1..Len(gOut) :
              /\ FirstOf(k) <= LastOf(k)
              /\ k > 1 => FirstOf(k) = LastOf(k - 1) + 1
              /\ gOut[k].PointCount = SumCounts(FirstOf(k), LastOf(k))
              /\ SameFrac(gOut[k].CentroidLat, MeanOf(FirstOf(k), LastOf(k)))
              /\ \A i \in (FirstOf(k) + 1)..LastOf(k) :
                    Near(MeanOf(FirstOf(k), i - 1), gIn[i - 1].EndTS,
                         gIn[i].CentroidLat, gIn[i].StartTS)
              /\ k > 1 => ~Near(gOut[k - 1].CentroidLat, gOut[k - 1].EndTS,
                                gIn[FirstOf(k)].CentroidLat, gIn[FirstOf(k)].StartTS)
        /\ (Len(gIn) = 2 /\ gIn[1].CentroidLat.n = 0 /\ gIn[2].CentroidLat.n = 200
            /\ gIn[2].StartTS - gIn[1].EndTS = 600) => Len(gOut) = 1
        /\ (Len(gIn) = 2 /\ gIn[1].CentroidLat.n = 0 /\ gIn[2].CentroidLat.n = 2000)
              => Len(gOut) = 2

\* Clusters at 0 m and 200 m merged into a stop at 100 m; the third cluster
\* at 640 m, 440 m from the second but 540 m from the stop, opened a new stop.
C12_Witness ==
    /\ gPc = "done" /\ Len(gIn) = 3 /\ Len(gOut) = 2
    /\ gIn[1].CentroidLat.n = 0 /\ gIn[2].CentroidLat.n = 200 /\ gIn[3].CentroidLat.n = 640
    /\ gIn[1].PointCount = gIn[2].PointCount
    /\ gIn[3].StartTS - gIn[2].EndTS = 600
    /\ gOut[1].PointCount = gIn[1].PointCount + gIn[2].PointCount

(***************************************************************************)
(* Claims about the path index.                                            *)
(***************************************************************************)
\* The stored samples of a path's user and date, in the order the queries
\* return them.
BucketOf(p) ==
    OrderByTimestamp({ r \in locations : PathKey(r) = <<p.UserID, p.Date>> })

\* The points of seq that are among those of kept, in their order.
Restrict(seq, kept) ==
    SelectSeq(seq, LAMBDA x : \E i \in 1..Len(kept) : kept[i] = x)

\* C13: every stored Path has MinLat/MaxLat/MinLon/MaxLon and StartTS/EndTS
\* equal to the least and greatest value over its points, PointCount equal
\* to the number of its points, and its points in non-decreasing timestamp
\* order, points of equal timestamp in the order the samples are read.
C13_TightEnvelope ==
    \A p \in paths :
        LET idx == 1..Len(p.Points) IN
        /\ Len(p.Points) >= 1
        /\ p.PointCount = Len(p.Points)
        /\ \A i \in idx : /\ p.MinLat <= p.Points[i].Lat /\ p.Points[i].Lat <= p.MaxLat
                          /\ p.MinLon <= p.Points[i].Lon /\ p.Points[i].Lon <= p.MaxLon
                          /\ p.StartTS <= p.Points[i].Timestamp
                          /\ p.Points[i].Timestamp <= p.EndTS
        /\ \E i \in idx : p.Points[i].Lat = p.MinLat
        /\ \E i \in idx : p.Points[i].Lat = p.MaxLat
        /\ \E i \in idx : p.Points[i].Lon = p.MinLon
        /\ \E i \in idx : p.Points[i].Lon = p.MaxLon
        /\ \E i \in idx : p.Points[i].Timestamp = p.StartTS
        /\ \E i \in idx : p.Points[i].Timestamp = p.EndTS
        /\ \A i \in 1..(Len(p.Points) - 1) :
              p.Points[i].Timestamp <= p.Points[i + 1].Timestamp
        /\ p.Points = Restrict([i \in 1..Len(BucketOf(p)) |-> PointOf(BucketOf(p)[i])],
                                p.Points)

\* A stored path of three points, two of them of the same second and a
\* degree of latitude apart, after a rebuild of the index.
C13_Witness ==
    /\ ops = <<>> /\ lastIngest.op = "handleAPIPathsRebuild"
    /\ \E p \in paths :
          /\ Len(p.Points) = 3 /\ p.MinLat = 0 /\ p.MaxLat = 1
          /\ p.StartTS < p.EndTS
          /\ p.MinLon < p.MaxLon
          /\ p.Points[2].Timestamp = p.Points[3].Timestamp
          /\ p.Points[2].Lat # p.Points[3].Lat

\* The last request has returned from UpdatePathsForLocations on its batch,
\* with no other request at work since it began.
UpdatedPaths ==
    /\ ops = <<>>
    /\ \/ lastIngest.op \in {"handleOwnTracks", "handleGPSLogger"}
       \/ lastIngest.op = "handleImportTimeline" /\ lastIngest.inserted > 0
    /\ lastIngest.solo /\ ~lastIngest.failed

\* The stored paths of a (user, date) bucket.
StoredPaths(key) == { p \in paths : <<p.UserID, p.Date>> = key }

\* C26: after UpdatePathsForLocations on a batch, with no other writer, the
\* stored path of every (user, local date) bucket a sample of the batch falls
\* in is ComputePathsForLocations over all the stored samples of the bucket,
\* and running UpdatePathsForLocations on the batch again, in whatever
\* order it takes the buckets, changes no path.
C26_UpdateRefinesCompute ==
    UpdatedPaths =>
        /\ \A i \in 1..Len(lastIngest.batch) :
              LET key == PathKey(lastIngest.batch[i])
                  bucket == { r \in locations : PathKey(r) = key }
                  computed == ComputePathsForLocations(OrderByTimestamp(bucket))
              IN PathsOf(StoredPaths(key)) = { computed[k] : k \in DOMAIN computed }
        /\ UpdatePathsForLocations(locations, paths, lastIngest.batch) = {paths}

\* A sample arrived for a bucket that already held a sample whose local date
\* is not its UTC date: the path has both.
C26_Witness ==
    /\ UpdatedPaths
    /\ lastIngest.op = "handleOwnTracks"
    /\ lastIngest.batch[1] \notin lastIngest.before
    /\ \E r \in lastIngest.before :
          /\ PathKey(r) = PathKey(lastIngest.batch[1])
          /\ r.Timestamp < PathKey(r)[2] * SecondsPerDay
    /\ \E p \in StoredPaths(PathKey(lastIngest.batch[1])) : Len(p.Points) >= 2

\* The indexes a request in progress can leave when it ends without an
\* error.
IndexAfter(o) ==
    IF ops[o].op = "handleAPIPathsRebuild"
    THEN {RebuildAllPaths(locations)}
    ELSE LET res == InsertLocationBatch(ops[o].stored, ops[o].batch)
         IN IF ops[o].op = "handleImportTimeline" /\ res.inserted = 0
            THEN {ops[o].before}
            ELSE UpdatePathsForLocations(res.table, ops[o].before, ops[o].batch)

\* A request ends with an error in this step.
FailsNow(o) ==
    /\ Len(ops') = Len(ops) - 1
    /\ ops' = RemoveAt(ops, o)
    /\ lastIngest'.failed
    /\ events' = events + 1

\* C25: every mutation of the path index is atomic for observers: while a
\* request is the only one at work the index is the one it found or the one
\* it leaves, and a request that ends with a persistence error leaves the
\* index exactly as it found it.
C25_IndexAtomic ==
    /\ [](\A o \in DOMAIN ops :
            ops[o].solo => PathsOf(paths) \in {PathsOf(ops[o].before)}
                                                  \cup { PathsOf(after) : after \in IndexAfter(o) })
    /\ [][\A o \in DOMAIN ops : (ops[o].solo /\ FailsNow(o)) => paths' = ops[o].before]_vars

\* C29: once every ingestion request and every rebuild has returned without
\* an error, the index is ComputePathsForLocations over all the stored
\* samples, whatever the interleaving was.
C29_NoLostUpdate ==
    (/\ ops = <<>>
     /\ lastIngest.op # "none"
     /\ ~lastIngest.failed) => PathsOf(paths) = RebuildAllPaths(locations)

(***************************************************************************)
(* Claims about the progress streams.                                      *)
(***************************************************************************)
\* The row of a job whose worker goes through the pages from `page' on
\* without a fault, whoever is subscribed.
RECURSIVE ProcessPage(_, _, _, _, _)
ProcessPage(job, table, config, assets, i) ==
    IF i > Len(assets) THEN [job |-> job, table |-> table]
    ELSE LET res == ProcessAsset(job, table, config, assets[i], FALSE)
         IN ProcessPage(res.job, res.table, config, assets, i + 1)

RECURSIVE ImportFrom(_, _, _, _)
ImportFrom(job, table, config, page) ==
    LET res == ProcessPage(job, table, config, AssetsOnPage(page), 1)
        done == [res.job EXCEPT !.lastPage = page]
    IN IF HasMore(done.lastPage) THEN ImportFrom(done, res.table, config, page + 1)
       ELSE [done EXCEPT !.status = "completed", !.completedAt = TRUE]

\* A step in which worker w makes a send of its broadcast.
Sends(w) ==
    /\ w \in DOMAIN workers /\ workers[w].pc = "send"
    /\ w \in DOMAIN workers'
    /\ workers'[w].pc # "send" \/ workers'[w].pos # workers[w].pos

\* C14: a send of a broadcast is one step of the worker whatever the buffers
\* hold: it appends the snapshot to the buffer of the subscriber it has
\* come to while that buffer has fewer than 10 snapshots, leaves a full
\* buffer as it is, touches no other channel, and goes on to the next
\* subscriber it read and after the last to what follows the broadcast.  A
\* completed job's row is the one of an import nobody subscribed to.
C14_BroadcastNeverBlocks ==
    /\ [][\A w \in DOMAIN workers : Sends(w) =>
            LET c == workers[w].subs[workers[w].pos] IN
            /\ IF workers[w].pos < Len(workers[w].subs)
               THEN workers'[w].pc = "send" /\ workers'[w].pos = workers[w].pos + 1
               ELSE workers'[w].pc = workers[w].after
            /\ DOMAIN chans' = DOMAIN chans
            /\ \A d \in DOMAIN chans \ {c} : chans'[d] = chans[d]
            /\ chans'[c].buf = IF Len(chans[c].buf) < StreamCapacity
                               THEN Append(chans[c].buf, workers[w].progress)
                               ELSE chans[c].buf]_vars
    /\ [](\A id \in DOMAIN db : db[id].status = "completed" =>
            db[id] = ImportFrom(NewJobRow(db[id].configJSON), {},
                                jsonUnmarshal(db[id].configJSON), 1))

\* The job has completed; one subscriber's buffer is full and snapshots
\* were dropped for it, while the other holds the final snapshot.
C14_Witness ==
    /\ Len(db) = 1 /\ db[1].status = "completed"
    /\ \E a, b \in DOMAIN chans :
          /\ Len(chans[a].buf) = StreamCapacity /\ chans[a].dropped > 0
          /\ chans[a].buf[1].Status = "running"
          /\ chans[b].dropped = 0 /\ Len(chans[b].buf) > 0
          /\ chans[b].buf[Len(chans[b].buf)].Status = "completed"

\* C15: no channel is closed twice, and once a job is completed, failed or
\* cancelled and its worker has gone, every channel subscribed to the job
\* has been closed, whenever the subscription was made.
C15_StreamsEnd ==
    \A c \in DOMAIN chans :
        /\ chans[c].closes <= 1
        /\ (/\ Terminal(GetImportJob(db, chans[c].jobID).status)
            /\ WorkersOf(chans[c].jobID) = {})
              => chans[c].closes = 1

\* The positions of the array of the job's slice that a step writes.
ArrayWritten(jobID) ==
    { k \in 1..Len(streams'[jobID].subs) :
         \/ k > Len(streams[jobID].subs)
         \/ streams'[jobID].subs[k] # streams[jobID].subs[k] }

\* C30: whatever the interleaving of broadcast, unsubscribe and closeStreams,
\* no broadcast sends on a closed channel, so that the process stays up, and
\* no step writes an element of a subscriber list that a broadcast has read
\* and is still going through.
C30_BroadcastSafe ==
    /\ [](/\ up
          /\ \A w \in DOMAIN workers :
                workers[w].pc = "send" =>
                   \A i \in workers[w].pos..Len(workers[w].subs) :
                      chans[workers[w].subs[i]].closes = 0)
    /\ [][\A jobID \in DOMAIN streams :
            (jobID \in DOMAIN streams' /\ streams'[jobID].array = streams[jobID].array)
               => \A w \in Racing(jobID) :
                     \A k \in ArrayWritten(jobID) : k > Len(workers[w].subs)]_vars

(***************************************************************************)
(* Claims about the filters as total functions.                            *)
(***************************************************************************)
\* C17: SimplifyPath, PruneStationaryPoints and RemoveSpikes return a point
\* sequence, no longer than the path, for every path of 0 to MaxLen points,
\* with identical and collinear points and chords of no length among them,
\* and every tolerance and threshold the program passes them.
C17_FiltersReturn ==
    gPc = "done" => /\ ~NoReturn(gOut.Points)
                    /\ Len(gOut.Points) <= Len(gIn)

\* SimplifyPath has returned on three points whose chord has no length, the
\* middle one off it, and on three identical ones it would be the same call.
C17_Witness ==
    /\ gPc = "done" /\ gOut.op = "SimplifyPath"
    /\ Len(gIn) = 3
    /\ gIn[1].Lat = gIn[3].Lat /\ gIn[1].Lon = gIn[3].Lon
    /\ gIn[2].Lat # gIn[1].Lat
    /\ gOut.Points = gIn

(***************************************************************************)
(* Claims about the path query.                                            *)
(***************************************************************************)
PointsIn(seq) == { seq[i] : i \in 1..Len(seq) }

\* The threshold a request asks for: none, when the parameter is absent or
\* not positive.
Threshold(param) == IF param # <<>> /\ param[1] > 0 THEN param[1] ELSE 0

\* The stages a request names, in its order, without the disabled ones.
RequestedStages(req) ==
    SelectSeq(IF req.order = <<>> THEN <<"stationary", "spikes">> ELSE req.order,
              LAMBDA st : \/ st = "stationary" /\ Threshold(req.prune) > 0
                          \/ st = "spikes" /\ Threshold(req.spikes) > 0)

\* The raw points after the first j requested stages.
RECURSIVE AfterStages(_, _, _)
AfterStages(raw, req, j) ==
    IF j = 0 THEN raw
    ELSE LET prev == AfterStages(raw, req, j - 1)
         IN IF RequestedStages(req)[j] = "stationary"
            THEN PruneStationaryPoints(prev, Threshold(req.prune)).Points
            ELSE RemoveSpikes(prev, Threshold(req.spikes)).Points

\* The points the stages of one kind take out of a path.
TakenOut(raw, req, kind) ==
    UNION { PointsIn(AfterStages(raw, req, j - 1)) \ PointsIn(AfterStages(raw, req, j)) :
              j \in { k \in 1..Len(RequestedStages(req)) : RequestedStages(req)[k] = kind } }

\* The stored paths a request is about.
InView(req) ==
    { p \in paths : /\ p.MaxLat >= req.bbox.SwLat /\ p.MinLat <= req.bbox.NeLat
                    /\ p.MaxLon >= req.bbox.SwLng /\ p.MinLon <= req.bbox.NeLng
                    /\ (req.end # <<>> => p.StartTS <= req.end[1]) }

\* C27: every stored path that meets the viewport is returned with the
\* points SimplifyPath(s_k(...s_1(raw)...), ToleranceFromBBox(bbox)), s_1..s_k
\* the enabled stages in the requested order (stationary then spikes when no
\* order is given); the returned points are a subsequence of the raw points;
\* and Removed.Stationary and Removed.Spikes hold exactly the points their
\* stage took out.
C27_Pipeline ==
    gPc = "done" =>
        LET stages == RequestedStages(gParam)
            out == gOut.Paths
        IN /\ Len(out) = Cardinality(InView(gParam))
           /\ \A p \in InView(gParam) :
                 \E i \in 1..Len(out) :
                    /\ out[i].UserID = p.UserID /\ out[i].Date = p.Date
                    /\ out[i].Points = SimplifyPath(AfterStages(p.Points, gParam, Len(stages)),
                                                    ToleranceFromBBox(gParam.bbox))
                    /\ PointsIn(out[i].Points) \subseteq PointsIn(p.Points)
                    /\ \A k \in 1..(Len(out[i].Points) - 1) :
                          out[i].Points[k].Timestamp < out[i].Points[k + 1].Timestamp
           /\ PointsIn(gOut.Removed.Stationary)
                 = UNION { TakenOut(p.Points, gParam, "stationary") : p \in InView(gParam) }
           /\ Len(gOut.Removed.Stationary) = Cardinality(PointsIn(gOut.Removed.Stationary))
           /\ PointsIn(gOut.Removed.Spikes)
                 = UNION { TakenOut(p.Points, gParam, "spikes") : p \in InView(gParam) }
           /\ Len(gOut.Removed.Spikes) = Cardinality(PointsIn(gOut.Removed.Spikes))

\* Spike removal was asked for before stationary pruning; both took points
\* out of the first of two returned paths, and the default order would have
\* left other points.
C27_Witness ==
    /\ gPc = "done"
    /\ gParam.order = <<"spikes", "stationary">>
    /\ Len(gOut.Paths) = 2
    /\ gOut.Removed.Spikes # <<>> /\ gOut.Removed.Stationary # <<>>
    /\ gOut.Paths[1].Points
          # SimplifyPath(AfterStages(gIn, [gParam EXCEPT !.order = <<>>], 2),
                         ToleranceFromBBox(gParam.bbox))

(***************************************************************************)
(* Claims about the timeline's entries.                                    *)
(***************************************************************************)
\* The merged clusters of the day that last at least ten minutes.
LongStops ==
    SelectSeq(MergeClusters(gIn, 1, <<>>), LAMBDA c : c.EndTS - c.StartTS >= 10 * 60)

StopEntries == SelectSeq(gOut.Entries, LAMBDA e : e.EntryType = "stop")

\* The raw points of the day with a timestamp from a to b.
PointsWithin(a, b) == SelectSeq(gParam, LAMBDA pt : a <= pt.Timestamp /\ pt.Timestamp <= b)

\* The length of the line through the points.
RECURSIVE PathLength(_)
PathLength(points) ==
    IF Len(points) < 2 THEN Frac(0, 1)
    ELSE AddFrac(ArcMeters(points[1].Lat, points[2].Lat), PathLength(Tail(points)))

\* C28: the entries are, in time order, one stop for each merged cluster of
\* at least 10 minutes and none for a shorter one, and between two
\* consecutive stops exactly one travel entry if and only if the later one
\* starts more than 60 s after the earlier one ends; the travel entry spans
\* that gap and its distance is the sum of the distances between the
\* consecutive raw points of the gap.  The first and the last entry are
\* stops.
C28_TimelineEntries ==
    gPc = "done" =>
        LET entries == gOut.Entries
        IN /\ Len(StopEntries) = Len(LongStops)
           /\ \A k \in 1..Len(LongStops) :
                 /\ StopEntries[k].Timestamp = LongStops[k].StartTS
                 /\ StopEntries[k].EndTimestamp = LongStops[k].EndTS
           /\ \A i \in 1..(Len(entries) - 1) :
                 entries[i].Timestamp <= entries[i + 1].Timestamp
           /\ \A i \in 1..Len(entries) :
                 entries[i].EntryType = "travel" =>
                    /\ 1 < i /\ i < Len(entries)
                    /\ entries[i - 1].EntryType = "stop" /\ entries[i + 1].EntryType = "stop"
                    /\ entries[i].Timestamp = entries[i - 1].EndTimestamp
                    /\ entries[i].EndTimestamp = entries[i + 1].Timestamp
                    /\ entries[i].EndTimestamp - entries[i].Timestamp > 60
                    /\ SameFrac(entries[i].DistanceMeters,
                                PathLength(PointsWithin(entries[i].Timestamp,
                                                        entries[i].EndTimestamp)))
           /\ \A i \in 1..(Len(entries) - 1) :
                 (entries[i].EntryType = "stop" /\ entries[i + 1].EntryType = "stop")
                    => entries[i + 1].Timestamp - entries[i].EndTimestamp <= 60

\* Two stops with a short cluster between them that is off the straight
\* way: one travel entry, longer than the distance between the stops.
C28_Witness ==
    /\ gPc = "done" /\ Len(gIn) = 3 /\ Len(gOut.Entries) = 3
    /\ gOut.Entries[2].EntryType = "travel"
    /\ Len(PointsWithin(gOut.Entries[2].Timestamp, gOut.Entries[2].EndTimestamp)) = 3
    /\ Greater(gOut.Entries[2].DistanceMeters,
               ArcMeters(gOut.Entries[2].Lat, gOut.Entries[2].EndLat))

====
